---- MODULE Spec2Model ----
(***************************************************************************)
(* Verification model of the cookie-notice scanner (src/prototype.py).     *)
(*                                                                         *)
(* The specifications of this module:                                      *)
(*                                                                         *)
(*   Spec         the worker pool: every worker runs Browser.crawl_page    *)
(*                and the lock region of detect_cookie_notices on the      *)
(*                three process-wide locks lock_l, lock_n, lock_m and the  *)
(*                browser's single foreground tab.                         *)
(*   SpecFair     Spec with every worker process running fairly.           *)
(*   SpecSession  one page session in full: crawl_page, crawl, the event   *)
(*                callbacks and detect_cookie_notices of one worker, on a  *)
(*                page without candidate nodes and cookies.                *)
(*   SpecDetect   the same session without network events, on a page with  *)
(*                candidate nodes whose scripts set cookies.               *)
(*   SpecPurge    SpecDetect on a page that keeps setting its cookies,     *)
(*                with the worker process running fairly.                  *)
(*   SpecOracle   AdblockPlusFilter: get_applicable_rules on a filter list. *)
(***************************************************************************)
EXTENDS Integers, Sequences, FiniteSets, TLC

\* ------------------------------------------------------------------ bounds
\* number of pool workers (mp.Pool(10) in the source)
NumWorkers == 2
\* number of pages handed to the pool (top(20) in the source)
MaxPages == 2
\* highlighted captures one worker takes inside one screenshot section
MaxShots == 1
\* network events the browser delivers to one session
MaxEvents == 2
\* cookies in play
MaxCookies == 1
\* times the page's scripts set a cookie during one session
MaxCookieSets == 2
\* nodes in one candidate set
MaxNodes == 1
\* rules the filter list holds
MaxRules == 1
\* entries in the domain option of one rule
MaxDomains == 2
\* elements of a DOM chain below the html element
MaxChain == 2
\* nodes of a DOM tree
MaxTree == 3

Workers == 1..NumWorkers

\* a multiprocessing.Lock that nobody holds
Free == 0
\* the foreground tab is one that no running session owns
\* (the browser's initial tab, or a tab a crashed task left open)
OtherTab == 0

\* pychrome's TimeoutException and CallMethodException: what a wire call on
\* a started tab raises, and all that crawl catches
Caught == {"timeout", "call_method"}

VARIABLES
    \* ---- worker pool (Spec)
    pc,          \* pc[w]: where worker w stands in crawl_page / crawl / detect
    exc,         \* exc[w]: the exception propagating in w, or "none"
    lock_l,      \* holder of lock_l, or Free
    lock_n,      \* holder of lock_n, or Free
    lock_m,      \* holder of lock_m, or Free
    tab,         \* tab[w]: "none", "open" (created), "stopped" (tab.stop() done)
    foreground,  \* the worker whose tab is the browser's foreground tab, or OtherTab
    shots,       \* shots[w]: captures taken by w in its current screenshot section
    pending,     \* pages not yet taken by a worker
    leaked,      \* number of tabs left open by tasks that ended with an error
    posted,      \* number of results handed to the callback f_page_crawled
    later        \* history: <<a, b>> when b started waiting for lock_m while a
                 \* held lock_l and had not yet entered lock_m

poolvars == <<pc, exc, lock_l, lock_n, lock_m, tab, foreground, shots, pending,
              leaked, posted, later>>

VARIABLES
    \* ---- one page session (SpecSession): control
    spc,         \* where the session stands in crawl_page / crawl / detect
    s_exc,       \* the exception propagating out of the with blocks, or "none"
    raised,      \* history: the exception this session's code raised, or "none"
    \* ---- WebpageResult
    hostname,    \* urlparse(url).hostname: "host", or "null" when there is none
    failed, failed_reason, failed_exception,
    skipped, skipped_reason,
    stopped_waiting, stopped_waiting_reason,
    requests, responses, cookies, screenshots,
    language, is_cmp_defined,
    \* ---- WebpageCrawler
    is_loaded,   \* self._is_loaded
    requestId,   \* self.requestId: "unset" (no such attribute yet), "None", or an id
    waited,      \* the load wait's counter, in polls of 0.1 s
    \* ---- the tab and the browser
    tab_state,   \* "none", "created", "started", "stopped", "closed"
    registered,  \* the four event callbacks are set on the tab
    enabled,     \* the protocol domains enabled on the tab
    navigated,   \* Page.navigate has been issued
    scripts_disabled,  \* Emulation.setScriptExecutionDisabled(value=True) is in force
    jar,         \* the browser's cookie jar
    requested,   \* request ids the browser has announced
    events_left, \* network events the browser may still deliver
    cookie_sets_left,  \* cookies the page's scripts may still set
    page_nodes,  \* nodes of the page a detection strategy can return
    \* ---- detect_cookie_notices: locals
    n_rules, n_fixed, n_full,  \* sizes of the three candidate sets
    shot_phase,  \* the candidate set being captured: 0 original, 1..3, 4 done
    shot_vis,    \* its number of visible nodes (from is_node_visible)
    shot_i,      \* index of the next highlighted capture
    to_delete,   \* cookies the purge loop's `for` still has to delete
    \* ---- history
    done_steps,  \* steps of detect_cookie_notices that have run
    detect_done, \* "no", "returned", "returned_failed", "raised"
    ret_jar,     \* the jar when detect_cookie_notices returned
    failed_at_detect, \* the page was failed by a status code when detect started
    vis_counts,  \* the number of visible nodes found for each candidate set so far
    visit,       \* the steps of the visit sequence that have completed, in order
    loaded_at_exit \* _is_loaded as the load-wait loop read it when it exited

ctl == <<spc, s_exc>>
outcome == <<failed, failed_reason, failed_exception>>
skipv == <<skipped, skipped_reason>>
stopv == <<stopped_waiting, stopped_waiting_reason>>
logs == <<requests, responses>>
detv == <<language, is_cmp_defined, cookies, screenshots>>
crawlerv == <<is_loaded, requestId, waited>>
tabv == <<tab_state, registered, enabled, navigated, scripts_disabled>>
envv == <<jar, requested, events_left, cookie_sets_left, page_nodes>>
candv == <<n_rules, n_fixed, n_full>>
shotv == <<shot_phase, shot_vis, shot_i>>
histv == <<done_steps, detect_done, ret_jar, failed_at_detect>>
tracev == <<vis_counts, visit, loaded_at_exit>>

VARIABLES
    \* ---- AdblockPlusFilter (SpecOracle)
    rules,       \* self._rules: the retained css rules of the filter list
    asked,       \* the hostname of the last get_applicable_rules call, or "none"
    applicable   \* what that call returned

oraclev == <<rules, asked, applicable>>

VARIABLES
    \* ---- the DOM probes of WebpageCrawler (SpecPromote .. SpecFullWidth)
    dom,         \* the part of the page's DOM the probe reads
    probed,      \* the last probe made and its argument, or "none"
    answer       \* what that probe returned, or the exception it raised

domv == <<dom, probed, answer>>
lockv == <<lock_l, lock_n, lock_m>>
poolrest == <<pc, exc, tab, foreground, shots, pending, leaked, posted, later>>

pagev == <<ctl, raised, hostname, outcome, skipv, stopv, logs, detv, crawlerv,
           tabv, envv, candv, shotv, to_delete, histv, tracev>>

sessvars == <<pagev, oraclev, domv>>

vars == <<poolvars, sessvars>>

\* ------------------------------------------------------------------ locks
\* Lock.acquire(): blocks until the lock is free (src/prototype.py:743-745)
CanAcquire(lock) == lock = Free

\* workers that hold lock_l and have not yet entered lock_m
HoldsLBeforeM == {a \in Workers : pc[a] \in {"dc_acq_n", "dc_acq_m"}}

\* w starts waiting for lock_m: remember who acquired lock_l before
Arrive(w) == later \cup {<<a, w>> : a \in HoldsLBeforeM \ {w}}

\* w releases lock_l: nobody arrives "later than w" any more
LeaveL(w) == {p \in later : p[1] # w}

\* w leaves lock_m
LeaveM(w) == {p \in later : p[2] # w}

\* ------------------------------------------------------------------ Init
PoolInit ==
    /\ pc = [w \in Workers |-> "idle"]
    /\ exc = [w \in Workers |-> "none"]
    /\ lock_l = Free
    /\ lock_n = Free
    /\ lock_m = Free
    /\ tab = [w \in Workers |-> "none"]
    /\ foreground = OtherTab
    /\ shots = [w \in Workers |-> 0]
    /\ pending = MaxPages
    /\ leaked = 0
    /\ posted = 0
    /\ later = {}

\* WebpageResult.__init__ and the state of a session that has not begun, for
\* a page with hostname h and nodes candidate nodes, whose browser delivers
\* up to ev network events and whose scripts set up to ck cookies
SessionInit(h, ev, ck, nodes) ==
    /\ spc = "cp_acq_n" /\ s_exc = "none" /\ raised = "none"
    /\ hostname = h
    /\ failed = FALSE /\ failed_reason = <<"none", 0>> /\ failed_exception = "none"
    /\ skipped = FALSE /\ skipped_reason = <<"none", "none">>
    /\ stopped_waiting = FALSE /\ stopped_waiting_reason = "none"
    /\ requests = <<>> /\ responses = <<>>
    /\ cookies = [k \in {} |-> {}]
    /\ screenshots = <<>>
    /\ language = "null" /\ is_cmp_defined = FALSE
    /\ is_loaded = FALSE /\ requestId = "unset" /\ waited = 0
    /\ tab_state = "none" /\ registered = FALSE /\ enabled = {}
    /\ navigated = FALSE /\ scripts_disabled = FALSE
    /\ jar = {} /\ requested = {}
    /\ events_left = ev /\ cookie_sets_left = ck /\ page_nodes = nodes
    /\ n_rules = 0 /\ n_fixed = 0 /\ n_full = 0
    /\ shot_phase = 0 /\ shot_vis = 0 /\ shot_i = 0
    /\ to_delete = {}
    /\ done_steps = {} /\ detect_done = "no" /\ ret_jar = {}
    /\ failed_at_detect = FALSE
    /\ vis_counts = <<>> /\ visit = <<>> /\ loaded_at_exit = FALSE

\* an AdblockPlusFilter that is not asked anything
OracleIdle == rules = <<>> /\ asked = "none" /\ applicable = <<>>
DomIdle == dom = <<>> /\ probed = <<"none", 0>> /\ answer = "none"

Init == PoolInit /\ SessionInit("host", 0, 0, 0) /\ OracleIdle /\ DomIdle

\* --------------------------------------------------- Browser.crawl_page
\* pool.apply_async(f_crawl_page, ...): an idle worker takes the next page
\* and reaches lock_n.acquire() of crawl_page
TakePage(w) ==
    /\ pc[w] = "idle"
    /\ pending > 0
    /\ pending' = pending - 1
    /\ pc' = [pc EXCEPT ![w] = "cp_acq_n"]
    /\ later' = Arrive(w)
    /\ UNCHANGED <<exc, lock_l, lock_n, lock_m, tab, foreground, shots, leaked, posted>>
    /\ UNCHANGED sessvars

\* crawl_page: lock_n.acquire()
CpAcquireN(w) ==
    /\ pc[w] = "cp_acq_n"
    /\ CanAcquire(lock_n)
    /\ lock_n' = w
    /\ pc' = [pc EXCEPT ![w] = "cp_acq_m"]
    /\ UNCHANGED <<exc, lock_l, lock_m, tab, foreground, shots, pending, leaked, posted, later>>
    /\ UNCHANGED sessvars

\* crawl_page as it would be if tab creation took lock_n only
CpAcquireM_NoLockM(w) ==
    /\ pc[w] = "cp_acq_m"
    /\ pc' = [pc EXCEPT ![w] = "cp_rel_n"]
    /\ UNCHANGED <<exc, lock_l, lock_n, lock_m, tab, foreground, shots, pending,
                   leaked, posted, later>>
    /\ UNCHANGED sessvars

\* crawl_page: with lock_m (enter)
CpAcquireM(w) ==
    /\ pc[w] = "cp_acq_m"
    /\ CanAcquire(lock_m)
    /\ lock_m' = w
    /\ pc' = [pc EXCEPT ![w] = "cp_rel_n"]
    /\ UNCHANGED <<exc, lock_l, lock_n, tab, foreground, shots, pending, leaked, posted, later>>
    /\ UNCHANGED sessvars

\* crawl_page: lock_n.release()
CpReleaseN(w) ==
    /\ pc[w] = "cp_rel_n"
    /\ lock_n' = Free
    /\ pc' = [pc EXCEPT ![w] = "cp_new_tab"]
    /\ UNCHANGED <<exc, lock_l, lock_m, tab, foreground, shots, pending, leaked, posted, later>>
    /\ UNCHANGED sessvars

\* crawl_page: tab = self.browser.new_tab(); the new tab opens in the
\* foreground.  The HTTP call may fail, and the error leaves the with block.
CpNewTab(w) ==
    /\ pc[w] = "cp_new_tab"
    /\ \/ /\ tab' = [tab EXCEPT ![w] = "open"]
          /\ foreground' = w
          /\ exc' = exc
       \/ /\ exc' = [exc EXCEPT ![w] = "other"]
          /\ UNCHANGED <<tab, foreground>>
    /\ pc' = [pc EXCEPT ![w] = "cp_exit_m"]
    /\ UNCHANGED <<lock_l, lock_n, lock_m, shots, pending, leaked, posted, later>>
    /\ UNCHANGED sessvars

\* crawl_page: leaving with lock_m releases it, exception or not
CpExitM(w) ==
    /\ pc[w] = "cp_exit_m"
    /\ lock_m' = Free
    /\ later' = LeaveM(w)
    /\ IF exc[w] = "none"
          THEN /\ pc' = [pc EXCEPT ![w] = "crawl"]
               /\ exc' = exc
          ELSE /\ pc' = [pc EXCEPT ![w] = "idle"]
               /\ exc' = [exc EXCEPT ![w] = "none"]
    /\ UNCHANGED <<lock_l, lock_n, tab, foreground, shots, pending, leaked, posted>>
    /\ UNCHANGED sessvars

\* the task ends with an error that nothing catches: the tab, if one was
\* created, is neither stopped nor closed and stays in the browser
TaskDies(w) ==
    /\ pc' = [pc EXCEPT ![w] = "idle"]
    /\ exc' = [exc EXCEPT ![w] = "none"]
    /\ tab' = [tab EXCEPT ![w] = "none"]
    /\ shots' = [shots EXCEPT ![w] = 0]
    /\ leaked' = IF tab[w] # "none" THEN leaked + 1 ELSE leaked
    /\ posted' = posted
    /\ foreground' = IF foreground = w THEN OtherTab ELSE foreground

\* --------------------------------------- WebpageCrawler.crawl (summary)
\* crawl up to the lock region of detect_cookie_notices, as far as the locks
\* and the foreground tab can tell: the worker reaches `with lock_l`, or the
\* page ends before it (skipped, or a caught exception), or an exception that
\* crawl does not catch ends the task.  SpecSession has these steps in full.
CrawlBody(w) ==
    /\ pc[w] = "crawl"
    /\ \/ /\ pc' = [pc EXCEPT ![w] = "dc_acq_l"]
          /\ later' = Arrive(w)
          /\ UNCHANGED <<exc, tab, foreground, shots, leaked, posted>>
       \/ /\ pc' = [pc EXCEPT ![w] = "cr_stop"]
          /\ UNCHANGED <<exc, tab, foreground, shots, leaked, posted, later>>
       \/ /\ TaskDies(w)
          /\ later' = later
    /\ UNCHANGED <<lock_l, lock_n, lock_m, pending>>
    /\ UNCHANGED sessvars

\* ------------------------- detect_cookie_notices: the triple mutex region
\* the region as it would be without the outer lock
DcAcquireL_NoLockL(w) ==
    /\ pc[w] = "dc_acq_l"
    /\ pc' = [pc EXCEPT ![w] = "dc_acq_n"]
    /\ UNCHANGED <<exc, lock_l, lock_n, lock_m, tab, foreground, shots, pending,
                   leaked, posted, later>>
    /\ UNCHANGED sessvars

\* with lock_l (enter)
DcAcquireL(w) ==
    /\ pc[w] = "dc_acq_l"
    /\ CanAcquire(lock_l)
    /\ lock_l' = w
    /\ pc' = [pc EXCEPT ![w] = "dc_acq_n"]
    /\ UNCHANGED <<exc, lock_n, lock_m, tab, foreground, shots, pending, leaked, posted, later>>
    /\ UNCHANGED sessvars

\* lock_n.acquire()
DcAcquireN(w) ==
    /\ pc[w] = "dc_acq_n"
    /\ CanAcquire(lock_n)
    /\ lock_n' = w
    /\ pc' = [pc EXCEPT ![w] = "dc_acq_m"]
    /\ UNCHANGED <<exc, lock_l, lock_m, tab, foreground, shots, pending, leaked, posted, later>>
    /\ UNCHANGED sessvars

\* with lock_m (enter)
DcAcquireM(w) ==
    /\ pc[w] = "dc_acq_m"
    /\ CanAcquire(lock_m)
    /\ lock_m' = w
    /\ pc' = [pc EXCEPT ![w] = "dc_rel_n"]
    /\ UNCHANGED <<exc, lock_l, lock_n, tab, foreground, shots, pending, leaked, posted, later>>
    /\ UNCHANGED sessvars

\* the region as it would be if lock_n were not released after lock_m is taken
DcReleaseN_Forgotten(w) ==
    /\ pc[w] = "dc_rel_n"
    /\ pc' = [pc EXCEPT ![w] = "dc_front"]
    /\ UNCHANGED <<exc, lock_l, lock_n, lock_m, tab, foreground, shots, pending,
                   leaked, posted, later>>
    /\ UNCHANGED sessvars

\* lock_n.release()
DcReleaseN(w) ==
    /\ pc[w] = "dc_rel_n"
    /\ lock_n' = Free
    /\ pc' = [pc EXCEPT ![w] = "dc_front"]
    /\ UNCHANGED <<exc, lock_l, lock_m, tab, foreground, shots, pending, leaked, posted, later>>
    /\ UNCHANGED sessvars

\* the section as it would be if bringToFront were left out
DcBringToFront_Missing(w) ==
    /\ pc[w] = "dc_front"
    /\ pc' = [pc EXCEPT ![w] = "dc_shot"]
    /\ UNCHANGED <<exc, lock_l, lock_n, lock_m, tab, foreground, shots, pending,
                   leaked, posted, later>>
    /\ UNCHANGED sessvars

\* self.tab.Page.bringToFront(): the worker's tab becomes the foreground tab,
\* or the wire call raises and the exception leaves both with blocks
DcBringToFront(w) ==
    /\ pc[w] = "dc_front"
    /\ \/ /\ foreground' = w
          /\ pc' = [pc EXCEPT ![w] = "dc_shot"]
          /\ exc' = exc
       \/ \E e \in Caught :
          /\ exc' = [exc EXCEPT ![w] = e]
          /\ pc' = [pc EXCEPT ![w] = "dc_exit_m"]
          /\ foreground' = foreground
    /\ UNCHANGED <<lock_l, lock_n, lock_m, tab, shots, pending, leaked, posted, later>>
    /\ UNCHANGED sessvars

\* take_screenshot('original') and the take_screenshots_of_visible_nodes
\* calls: one capture per step; after the last one the with block is left;
\* any wire call of a capture may raise
DcCapture(w) ==
    /\ pc[w] = "dc_shot"
    /\ \/ /\ shots[w] <= MaxShots
          /\ shots' = [shots EXCEPT ![w] = shots[w] + 1]
          /\ UNCHANGED <<pc, exc>>
       \/ /\ shots[w] >= 1
          /\ pc' = [pc EXCEPT ![w] = "dc_exit_m"]
          /\ UNCHANGED <<shots, exc>>
       \/ \E e \in Caught :
          /\ exc' = [exc EXCEPT ![w] = e]
          /\ pc' = [pc EXCEPT ![w] = "dc_exit_m"]
          /\ shots' = shots
    /\ UNCHANGED <<lock_l, lock_n, lock_m, tab, foreground, pending, leaked, posted, later>>
    /\ UNCHANGED sessvars

\* leaving with lock_m
DcExitM(w) ==
    /\ pc[w] = "dc_exit_m"
    /\ lock_m' = Free
    /\ later' = LeaveM(w)
    /\ pc' = [pc EXCEPT ![w] = "dc_exit_l"]
    /\ UNCHANGED <<exc, lock_l, lock_n, tab, foreground, shots, pending, leaked, posted>>
    /\ UNCHANGED sessvars

\* leaving with lock_l; then save_screenshots and the cookie steps follow, or
\* crawl's except clauses take the exception
DcExitL(w) ==
    /\ pc[w] = "dc_exit_l"
    /\ lock_l' = Free
    /\ \/ /\ exc[w] = "none"
          /\ pc' = [pc EXCEPT ![w] = "dc_post"]
          /\ exc' = exc
       \/ /\ exc[w] \in Caught
          /\ pc' = [pc EXCEPT ![w] = "cr_stop"]
          /\ exc' = [exc EXCEPT ![w] = "none"]
    /\ later' = LeaveL(w)
    /\ UNCHANGED <<lock_n, lock_m, tab, foreground, shots, pending, leaked, posted>>
    /\ UNCHANGED sessvars

\* save_screenshots, set_cookies, _delete_all_cookies (summary): detect
\* returns, or raises a caught exception, or one that ends the task
DcPost(w) ==
    /\ pc[w] = "dc_post"
    /\ \/ /\ pc' = [pc EXCEPT ![w] = "cr_stop"]
          /\ UNCHANGED <<exc, tab, foreground, shots, leaked, posted>>
       \/ TaskDies(w)
    /\ UNCHANGED <<lock_l, lock_n, lock_m, pending, later>>
    /\ UNCHANGED sessvars

\* crawl: self.tab.stop()
CrStop(w) ==
    /\ pc[w] = "cr_stop"
    /\ tab' = [tab EXCEPT ![w] = "stopped"]
    /\ pc' = [pc EXCEPT ![w] = "cp_close"]
    /\ UNCHANGED <<exc, lock_l, lock_n, lock_m, foreground, shots, pending,
                   leaked, posted, later>>
    /\ UNCHANGED sessvars

\* crawl_page: self.browser.close_tab(tab); when the closed tab was the
\* foreground tab the browser shows one of the tabs that remain
CpCloseTab(w) ==
    /\ pc[w] = "cp_close"
    /\ tab' = [tab EXCEPT ![w] = "none"]
    /\ \/ /\ foreground # w
          /\ foreground' = foreground
       \/ /\ foreground = w
          /\ foreground' \in {OtherTab} \cup {v \in Workers \ {w} : tab[v] # "none"}
    /\ shots' = [shots EXCEPT ![w] = 0]
    /\ pc' = [pc EXCEPT ![w] = "idle"]
    /\ posted' = posted + 1
    /\ UNCHANGED <<exc, lock_l, lock_n, lock_m, pending, leaked, later>>
    /\ UNCHANGED sessvars

PoolNext ==
    \E w \in Workers :
        \/ TakePage(w)
        \/ CpAcquireN(w)
        \/ CpAcquireM(w)
        \/ CpReleaseN(w)
        \/ CpNewTab(w)
        \/ CpExitM(w)
        \/ CrawlBody(w)
        \/ DcAcquireL(w)
        \/ DcAcquireN(w)
        \/ DcAcquireM(w)
        \/ DcReleaseN(w)
        \/ DcBringToFront(w)
        \/ DcCapture(w)
        \/ DcExitM(w)
        \/ DcExitL(w)
        \/ DcPost(w)
        \/ CrStop(w)
        \/ CpCloseTab(w)

Next == PoolNext

Spec == Init /\ [][Next]_vars

\* the steps of worker process w
WorkerStep(w) ==
    \/ TakePage(w)
    \/ CpAcquireN(w)
    \/ CpAcquireM(w)
    \/ CpReleaseN(w)
    \/ CpNewTab(w)
    \/ CpExitM(w)
    \/ CrawlBody(w)
    \/ DcAcquireL(w)
    \/ DcAcquireN(w)
    \/ DcAcquireM(w)
    \/ DcReleaseN(w)
    \/ DcBringToFront(w)
    \/ DcCapture(w)
    \/ DcExitM(w)
    \/ DcExitL(w)
    \/ DcPost(w)
    \/ CrStop(w)
    \/ CpCloseTab(w)

\* SpecFair: every worker process keeps running, and a worker blocked in
\* acquire() gets the lock when it stays free
SpecFair == Init /\ [][Next]_vars /\ \A w \in Workers : WF_vars(WorkerStep(w))

\* ===================================================== one page session
\* the worker that runs the session
Me == CHOOSE w \in Workers : TRUE

\* request ids, HTTP statuses and languages the browser and langdetect produce
ReqIds == {"r1", "r2"}
Statuses == {200, 404, 500}
Langs == {"en", "de", "ja"}
CookieIds == 1..MaxCookies

\* `while ... waited < 30` with waited += 0.1 per poll: the float sum of 300
\* additions of 0.1 is 30.000000000000156, the first value not below 30, so
\* the loop body runs at most 300 times
LoadCeilingPolls == 300

\* the domains _setup_tab enables, in its order
SetupDomains == <<"Network", "Page", "DOM", "Runtime", "Overlay">>

\* positions inside detect_cookie_notices
DetectPcs == {"dc_lang", "dc_cmp", "dc_rules", "dc_search_off", "dc_search",
              "dc_search_on", "dc_seeds", "dc_fixed", "dc_full", "dc_acq_l",
              "dc_acq_n", "dc_acq_m", "dc_rel_n", "dc_front", "dc_shot", "dc_vis",
              "dc_cap", "dc_exit_m", "dc_exit_l", "dc_save", "dc_cookies",
              "dc_del_test", "dc_del_fetch", "dc_del_one"}

\* str(n)[0] as a number
RECURSIVE LeadingDigit(_)
LeadingDigit(n) == IF n < 10 THEN n ELSE LeadingDigit(n \div 10)

\* str(status).startswith('4') or str(status).startswith('5')
IsErrorStatus(status) == LeadingDigit(status) = 4 \/ LeadingDigit(status) = 5

\* lang != 'en' and lang != 'de', negated
IsSupportedLanguage_Any(lang) == TRUE

IsSupportedLanguage(lang) == lang = "en" \/ lang = "de"

\* WebpageResult.add_screenshot: self.screenshots[name] = screenshot
AddScreenshot(shots_, name) ==
    IF \E i \in 1..Len(shots_) : shots_[i] = name THEN shots_ ELSE Append(shots_, name)

\* the labels as they would be if every candidate set were captured as 'rules'
SetName_Same(k) == "rules"

\* the label of candidate set k
SetName(k) == IF k = 1 THEN "rules" ELSE IF k = 2 THEN "fixed-parent" ELSE "full-width-parent"
SetSize(k) == IF k = 1 THEN n_rules ELSE IF k = 2 THEN n_fixed ELSE n_full

\* SpecSession: a page without candidate nodes and cookies, in a browser
\* that delivers network events
InitSession ==
    PoolInit /\ OracleIdle /\ DomIdle /\ \E h \in {"host", "null"} : SessionInit(h, MaxEvents, 0, 0)

\* SpecDetect: a page with candidate nodes whose scripts set cookies, in a
\* browser that delivers the load event only
InitDetect ==
    /\ PoolInit /\ OracleIdle /\ DomIdle
    /\ \E h \in {"host", "null"}, n \in 0..MaxNodes : SessionInit(h, 0, MaxCookieSets, n)

\* variables no step of crawl_page, crawl or detect writes
SessionFrame ==
    UNCHANGED <<poolrest, hostname, requested, events_left, cookie_sets_left, page_nodes,
                oraclev, domv>>

\* an exception raised inside crawl's try block, outside the with blocks:
\* the except clauses turn a caught one into failed{reason, cause} and crawl
\* goes on to tab.stop(); any other leaves crawl and crawl_page
Fail(e) ==
    /\ raised' = e
    /\ s_exc' = s_exc
    /\ IF e \in Caught
          THEN /\ failed' = TRUE
               /\ failed_reason' = <<e, 0>>
               /\ failed_exception' = e
               /\ spc' = "cr_stop"
          ELSE /\ UNCHANGED outcome
               /\ spc' = "died"
    /\ detect_done' = IF spc \in DetectPcs THEN "raised" ELSE detect_done
    /\ UNCHANGED <<done_steps, ret_jar, failed_at_detect>>

\* a step that went well and only moves on to position p
Goto(p) ==
    /\ spc' = p
    /\ UNCHANGED <<s_exc, raised, outcome>>

\* --------------------------------------------------- Browser.crawl_page
SCpAcquireN ==
    /\ spc = "cp_acq_n"
    /\ CanAcquire(lock_n)
    /\ lock_n' = Me
    /\ Goto("cp_acq_m")
    /\ SessionFrame
    /\ UNCHANGED <<lock_l, lock_m, skipv, stopv, logs, detv, crawlerv, tabv, jar,
                   candv, shotv, to_delete, histv>>
    /\ UNCHANGED tracev

SCpAcquireM ==
    /\ spc = "cp_acq_m"
    /\ CanAcquire(lock_m)
    /\ lock_m' = Me
    /\ Goto("cp_rel_n")
    /\ SessionFrame
    /\ UNCHANGED <<lock_l, lock_n, skipv, stopv, logs, detv, crawlerv, tabv, jar,
                   candv, shotv, to_delete, histv>>
    /\ UNCHANGED tracev

SCpReleaseN ==
    /\ spc = "cp_rel_n"
    /\ lock_n' = Free
    /\ Goto("cp_new_tab")
    /\ SessionFrame
    /\ UNCHANGED <<lock_l, lock_m, skipv, stopv, logs, detv, crawlerv, tabv, jar,
                   candv, shotv, to_delete, histv>>
    /\ UNCHANGED tracev

\* tab = self.browser.new_tab()
SCpNewTab ==
    /\ spc = "cp_new_tab"
    /\ spc' = "cp_exit_m"
    /\ \/ /\ tab_state' = "created"
          /\ UNCHANGED <<s_exc, raised>>
       \/ /\ s_exc' = "other"
          /\ raised' = "other"
          /\ tab_state' = tab_state
    /\ SessionFrame
    /\ UNCHANGED <<lockv, outcome, skipv, stopv, logs, detv, crawlerv, registered,
                   enabled, navigated, scripts_disabled, jar, candv, shotv,
                   to_delete, histv>>
    /\ UNCHANGED tracev

\* leaving with lock_m; then page_crawler.crawl() begins
SCpExitM ==
    /\ spc = "cp_exit_m"
    /\ lock_m' = Free
    /\ spc' = IF s_exc = "none" THEN "cr_init" ELSE "died"
    /\ s_exc' = "none"
    /\ SessionFrame
    /\ UNCHANGED <<lock_l, lock_n, raised, outcome, skipv, stopv, logs, detv,
                   crawlerv, tabv, jar, candv, shotv, to_delete, histv>>
    /\ UNCHANGED tracev

\* ------------------------------------- WebpageCrawler.crawl, _setup_tab
\* crawl: self._is_loaded = False; _setup_tab: the four callbacks are set
SCrInit ==
    /\ spc = "cr_init"
    /\ is_loaded' = FALSE
    /\ registered' = TRUE
    /\ Goto("st_start")
    /\ SessionFrame
    /\ UNCHANGED <<lockv, skipv, stopv, logs, detv, requestId, waited, tab_state,
                   enabled, navigated, scripts_disabled, jar, candv, shotv,
                   to_delete, histv>>
    /\ visit' = Append(visit, "callbacks")
    /\ UNCHANGED <<vis_counts, loaded_at_exit>>

\* _setup_tab: self.tab.start(); opening the websocket may fail, and
\* _setup_tab is called outside crawl's try block
SStStart ==
    /\ spc = "st_start"
    /\ \/ /\ tab_state' = "started"
          /\ Goto("st_enable")
       \/ /\ spc' = "died"
          /\ raised' = "other"
          /\ UNCHANGED <<tab_state, s_exc, outcome>>
    /\ SessionFrame
    /\ UNCHANGED <<lockv, skipv, stopv, logs, detv, crawlerv, registered, enabled,
                   navigated, scripts_disabled, jar, candv, shotv, to_delete, histv>>
    /\ UNCHANGED tracev

\* the next domain _setup_tab has to enable
NextDomain == SetupDomains[Cardinality(enabled) + 1]

\* _setup_tab: Network.enable(), Page.enable(), DOM.enable(),
\* Runtime.enable(), Overlay.enable(), one wire call per step; an exception
\* of any of them leaves crawl, which has not entered its try block yet
SStEnable ==
    /\ spc = "st_enable"
    /\ \/ /\ enabled' = enabled \cup {NextDomain}
          /\ visit' = Append(visit, NextDomain)
          /\ Goto(IF Cardinality(enabled) + 1 = Len(SetupDomains)
                     THEN "cr_reqid" ELSE "st_enable")
       \/ \E e \in Caught :
          /\ spc' = "died"
          /\ raised' = e
          /\ UNCHANGED <<enabled, s_exc, outcome, visit>>
    /\ SessionFrame
    /\ UNCHANGED <<lockv, skipv, stopv, logs, detv, crawlerv, tab_state, registered,
                   navigated, scripts_disabled, jar, candv, shotv, to_delete, histv>>
    /\ UNCHANGED <<vis_counts, loaded_at_exit>>

\* crawl: self.requestId = None
SCrReqId ==
    /\ spc = "cr_reqid"
    /\ requestId' = "None"
    /\ Goto("cr_deny")
    /\ SessionFrame
    /\ UNCHANGED <<lockv, skipv, stopv, logs, detv, is_loaded, waited, tabv, jar,
                   candv, shotv, to_delete, histv>>
    /\ UNCHANGED tracev

\* _deny_permission as it would be with the first setPermission call only
SCrDeny_OneOrigin ==
    /\ spc = "cr_deny"
    /\ \/ /\ hostname = "null"
          /\ Fail("other")
          /\ visit' = visit
       \/ /\ hostname # "null"
          /\ \/ /\ Goto("cr_navigate")
                /\ visit' = Append(visit, "deny host")
                /\ UNCHANGED histv
             \/ /\ \E e \in Caught : Fail(e)
                /\ visit' = visit
    /\ SessionFrame
    /\ UNCHANGED <<lockv, skipv, stopv, logs, detv, crawlerv, tabv, jar, candv,
                   shotv, to_delete>>
    /\ UNCHANGED <<vis_counts, loaded_at_exit>>

\* crawl: self._deny_permission('notifications', self.webpage.hostname):
\* 'https://' + hostname raises TypeError when hostname is None; otherwise
\* two Browser.setPermission wire calls
SCrDeny ==
    /\ spc = "cr_deny"
    /\ \/ /\ hostname = "null"
          /\ Fail("other")
          /\ visit' = visit
       \/ /\ hostname # "null"
          /\ \/ /\ Goto("cr_navigate")
                /\ visit' = visit \o <<"deny host", "deny www.host">>
                /\ UNCHANGED histv
             \/ /\ \E e \in Caught : Fail(e)
                /\ visit' = visit
    /\ SessionFrame
    /\ UNCHANGED <<lockv, skipv, stopv, logs, detv, crawlerv, tabv, jar, candv,
                   shotv, to_delete>>
    /\ UNCHANGED <<vis_counts, loaded_at_exit>>

\* crawl: self.tab.Page.navigate(url=..., _timeout=15)
SCrNavigate ==
    /\ spc = "cr_navigate"
    /\ \/ /\ navigated' = TRUE
          /\ visit' = Append(visit, "navigate")
          /\ Goto("cr_loop_test")
          /\ UNCHANGED histv
       \/ /\ \E e \in Caught : Fail(e)
          /\ UNCHANGED <<navigated, visit>>
    /\ SessionFrame
    /\ UNCHANGED <<lockv, skipv, stopv, logs, detv, crawlerv, tab_state, registered,
                   enabled, scripts_disabled, jar, candv, shotv, to_delete>>
    /\ UNCHANGED <<vis_counts, loaded_at_exit>>

\* crawl: while not self._is_loaded and waited < 30
SCrLoopTest ==
    /\ spc = "cr_loop_test"
    /\ Goto(IF ~is_loaded /\ waited < LoadCeilingPolls THEN "cr_loop_body" ELSE "cr_ceiling")
    /\ loaded_at_exit' = IF ~is_loaded /\ waited < LoadCeilingPolls
                            THEN loaded_at_exit ELSE is_loaded
    /\ SessionFrame
    /\ UNCHANGED <<lockv, skipv, stopv, logs, detv, crawlerv, tabv, jar, candv,
                   shotv, to_delete, histv>>
    /\ UNCHANGED <<vis_counts, visit>>

\* crawl: self.tab.wait(0.1); waited += 0.1
SCrLoopBody ==
    /\ spc = "cr_loop_body"
    /\ waited' = waited + 1
    /\ Goto("cr_loop_test")
    /\ SessionFrame
    /\ UNCHANGED <<lockv, skipv, stopv, logs, detv, is_loaded, requestId, tabv, jar,
                   candv, shotv, to_delete, histv>>
    /\ UNCHANGED tracev

\* the ceiling test as it would be with > for >=
CeilingHit_Strict == waited > LoadCeilingPolls

\* crawl: waited >= 30
CeilingHit == waited >= LoadCeilingPolls

\* crawl: if waited >= 30: self.webpage.set_stopped_waiting('load event');
\* the local `waited` is not read again and is cleared here
SCrCeiling ==
    /\ spc = "cr_ceiling"
    /\ IF CeilingHit
          THEN /\ stopped_waiting' = TRUE
               /\ stopped_waiting_reason' = "load event"
          ELSE UNCHANGED stopv
    /\ waited' = 0
    /\ Goto("cr_idle")
    /\ SessionFrame
    /\ UNCHANGED <<lockv, skipv, logs, detv, is_loaded, requestId, tabv, jar, candv,
                   shotv, to_delete, histv>>
    /\ visit' = Append(visit, "load wait")
    /\ UNCHANGED <<vis_counts, loaded_at_exit>>

\* crawl: self.tab.wait(5)
SCrIdle ==
    /\ spc = "cr_idle"
    /\ Goto("cr_getdoc")
    /\ SessionFrame
    /\ UNCHANGED <<lockv, skipv, stopv, logs, detv, crawlerv, tabv, jar, candv,
                   shotv, to_delete, histv>>
    /\ visit' = Append(visit, "idle")
    /\ UNCHANGED <<vis_counts, loaded_at_exit>>

\* crawl: self.tab.DOM.getDocument(); then detect_cookie_notices is called
SCrGetDocument ==
    /\ spc = "cr_getdoc"
    /\ \/ /\ Goto("dc_lang")
          /\ failed_at_detect' = (failed /\ failed_reason[1] = "status code")
          /\ visit' = Append(visit, "getDocument")
          /\ UNCHANGED <<done_steps, detect_done, ret_jar>>
       \/ /\ \E e \in Caught : Fail(e)
          /\ visit' = visit
    /\ SessionFrame
    /\ UNCHANGED <<lockv, skipv, stopv, logs, detv, crawlerv, tabv, jar, candv,
                   shotv, to_delete>>
    /\ UNCHANGED <<vis_counts, loaded_at_exit>>

\* ------------------------------ WebpageCrawler.detect_cookie_notices
\* detect_cookie_notices returns: what the jar holds and whether the page is
\* marked failed at that moment
Returned ==
    /\ detect_done' = IF failed THEN "returned_failed" ELSE "returned"
    /\ ret_jar' = jar
    /\ spc' = "cr_stop"
    /\ UNCHANGED <<s_exc, raised, outcome>>

\* lang = self.detect_language(); set_language(lang); an unsupported
\* language is skipped and detect returns.  Runtime.evaluate is a wire call,
\* and langdetect's detect raises on text without features.
SDcLanguage ==
    /\ spc = "dc_lang"
    /\ \/ \E lang \in Langs :
          /\ language' = lang
          /\ IF IsSupportedLanguage(lang)
                THEN /\ Goto("dc_cmp")
                     /\ UNCHANGED <<skipv, detect_done, ret_jar>>
                ELSE /\ skipped' = TRUE
                     /\ skipped_reason' = <<"unimplemented language", lang>>
                     /\ Returned
          /\ UNCHANGED <<done_steps, failed_at_detect>>
       \/ /\ \E e \in Caught \cup {"other"} : Fail(e)
          /\ UNCHANGED <<language, skipv>>
    /\ SessionFrame
    /\ UNCHANGED <<lockv, stopv, logs, is_cmp_defined, cookies, screenshots,
                   crawlerv, tabv, jar, candv, shotv, to_delete>>
    /\ UNCHANGED tracev

\* is_cmp_defined = self.is_cmp_function_defined(); set_cmp_defined(...)
SDcCmp ==
    /\ spc = "dc_cmp"
    /\ \/ /\ \E b \in BOOLEAN : is_cmp_defined' = b
          /\ done_steps' = done_steps \cup {"cmp"}
          /\ Goto("dc_rules")
          /\ UNCHANGED <<detect_done, ret_jar, failed_at_detect>>
       \/ /\ \E e \in Caught : Fail(e)
          /\ is_cmp_defined' = is_cmp_defined
    /\ SessionFrame
    /\ UNCHANGED <<lockv, skipv, stopv, logs, language, cookies, screenshots,
                   crawlerv, tabv, jar, candv, shotv, to_delete>>
    /\ UNCHANGED tracev

\* cookie_notice_rule_node_ids = set(self.find_cookie_notices_by_rules())
SDcRules ==
    /\ spc = "dc_rules"
    /\ \/ /\ \E n \in 0..page_nodes : n_rules' = n
          /\ done_steps' = done_steps \cup {"rules"}
          /\ Goto("dc_search_off")
          /\ UNCHANGED <<detect_done, ret_jar, failed_at_detect>>
       \/ /\ \E e \in Caught : Fail(e)
          /\ n_rules' = n_rules
    /\ SessionFrame
    /\ UNCHANGED <<lockv, skipv, stopv, logs, detv, crawlerv, tabv, jar, n_fixed,
                   n_full, shotv, to_delete>>
    /\ UNCHANGED tracev

\* search_for_string: Emulation.setScriptExecutionDisabled(value=True)
SDcSearchDisable ==
    /\ spc = "dc_search_off"
    /\ \/ /\ scripts_disabled' = TRUE
          /\ done_steps' = done_steps \cup {"search"}
          /\ Goto("dc_search")
          /\ UNCHANGED <<detect_done, ret_jar, failed_at_detect>>
       \/ /\ \E e \in Caught : Fail(e)
          /\ scripts_disabled' = scripts_disabled
    /\ SessionFrame
    /\ UNCHANGED <<lockv, skipv, stopv, logs, detv, crawlerv, tab_state, registered,
                   enabled, navigated, jar, candv, shotv, to_delete>>
    /\ UNCHANGED tracev

\* search_for_string: DOM.performSearch, DOM.getSearchResults and the
\* describeNode calls of the script/style filter
SDcSearch ==
    /\ spc = "dc_search"
    /\ \/ /\ Goto("dc_search_on")
          /\ UNCHANGED histv
       \/ \E e \in Caught : Fail(e)
    /\ SessionFrame
    /\ UNCHANGED <<lockv, skipv, stopv, logs, detv, crawlerv, tabv, jar, candv,
                   shotv, to_delete>>
    /\ UNCHANGED tracev

\* search_for_string: Emulation.setScriptExecutionDisabled(value=False)
SDcSearchEnable ==
    /\ spc = "dc_search_on"
    /\ \/ /\ scripts_disabled' = FALSE
          /\ Goto("dc_seeds")
          /\ UNCHANGED histv
       \/ /\ \E e \in Caught : Fail(e)
          /\ scripts_disabled' = scripts_disabled
    /\ SessionFrame
    /\ UNCHANGED <<lockv, skipv, stopv, logs, detv, crawlerv, tab_state, registered,
                   enabled, navigated, jar, candv, shotv, to_delete>>
    /\ UNCHANGED tracev

\* cookie_node_ids = self._filter_visible_nodes(cookie_node_ids), then
\* find_parent_block_element for each: wire calls only
SDcSeeds ==
    /\ spc = "dc_seeds"
    /\ \/ /\ Goto("dc_fixed")
          /\ UNCHANGED histv
       \/ \E e \in Caught : Fail(e)
    /\ SessionFrame
    /\ UNCHANGED <<lockv, skipv, stopv, logs, detv, crawlerv, tabv, jar, candv,
                   shotv, to_delete>>
    /\ UNCHANGED tracev

\* find_cookie_notices_by_fixed_parent and its _filter_visible_nodes
SDcFixed ==
    /\ spc = "dc_fixed"
    /\ \/ /\ \E n \in 0..page_nodes : n_fixed' = n
          /\ Goto("dc_full")
          /\ UNCHANGED histv
       \/ /\ \E e \in Caught : Fail(e)
          /\ n_fixed' = n_fixed
    /\ SessionFrame
    /\ UNCHANGED <<lockv, skipv, stopv, logs, detv, crawlerv, tabv, jar, n_rules,
                   n_full, shotv, to_delete>>
    /\ UNCHANGED tracev

\* find_cookie_notices_by_full_width_parent and its _filter_visible_nodes
SDcFullWidth ==
    /\ spc = "dc_full"
    /\ \/ /\ \E n \in 0..page_nodes : n_full' = n
          /\ Goto("dc_acq_l")
          /\ UNCHANGED histv
       \/ /\ \E e \in Caught : Fail(e)
          /\ n_full' = n_full
    /\ SessionFrame
    /\ UNCHANGED <<lockv, skipv, stopv, logs, detv, crawlerv, tabv, jar, n_rules,
                   n_fixed, shotv, to_delete>>
    /\ UNCHANGED tracev

\* with lock_l (enter)
SDcAcquireL ==
    /\ spc = "dc_acq_l"
    /\ CanAcquire(lock_l)
    /\ lock_l' = Me
    /\ done_steps' = done_steps \cup {"lock"}
    /\ Goto("dc_acq_n")
    /\ SessionFrame
    /\ UNCHANGED <<lock_n, lock_m, skipv, stopv, logs, detv, crawlerv, tabv, jar,
                   candv, shotv, to_delete, detect_done, ret_jar, failed_at_detect>>
    /\ UNCHANGED tracev

\* lock_n.acquire()
SDcAcquireN ==
    /\ spc = "dc_acq_n"
    /\ CanAcquire(lock_n)
    /\ lock_n' = Me
    /\ Goto("dc_acq_m")
    /\ SessionFrame
    /\ UNCHANGED <<lock_l, lock_m, skipv, stopv, logs, detv, crawlerv, tabv, jar,
                   candv, shotv, to_delete, histv>>
    /\ UNCHANGED tracev

\* with lock_m (enter)
SDcAcquireM ==
    /\ spc = "dc_acq_m"
    /\ CanAcquire(lock_m)
    /\ lock_m' = Me
    /\ Goto("dc_rel_n")
    /\ SessionFrame
    /\ UNCHANGED <<lock_l, lock_n, skipv, stopv, logs, detv, crawlerv, tabv, jar,
                   candv, shotv, to_delete, histv>>
    /\ UNCHANGED tracev

\* lock_n.release()
SDcReleaseN ==
    /\ spc = "dc_rel_n"
    /\ lock_n' = Free
    /\ Goto("dc_front")
    /\ SessionFrame
    /\ UNCHANGED <<lock_l, lock_m, skipv, stopv, logs, detv, crawlerv, tabv, jar,
                   candv, shotv, to_delete, histv>>
    /\ UNCHANGED tracev

\* an exception raised inside the with blocks: it leaves with lock_m and
\* with lock_l before crawl's except clauses see it
FailLocked(e) ==
    /\ raised' = e
    /\ s_exc' = e
    /\ spc' = "dc_exit_m"
    /\ UNCHANGED outcome

\* self.tab.Page.bringToFront()
SDcBringToFront ==
    /\ spc = "dc_front"
    /\ \/ Goto("dc_shot")
       \/ \E e \in Caught : FailLocked(e)
    /\ SessionFrame
    /\ UNCHANGED <<lockv, skipv, stopv, logs, detv, crawlerv, tabv, jar, candv,
                   shotv, to_delete, histv>>
    /\ UNCHANGED tracev

\* self.take_screenshot('original')
SDcOriginal ==
    /\ spc = "dc_shot"
    /\ \/ /\ screenshots' = AddScreenshot(screenshots, <<"original", 0>>)
          /\ done_steps' = done_steps \cup {"shot"}
          /\ shot_phase' = 1
          /\ Goto("dc_vis")
       \/ /\ \E e \in Caught : FailLocked(e)
          /\ UNCHANGED <<screenshots, done_steps, shot_phase>>
    /\ SessionFrame
    /\ UNCHANGED <<lockv, skipv, stopv, logs, language, is_cmp_defined, cookies,
                   crawlerv, tabv, jar, candv, shot_vis, shot_i, to_delete,
                   detect_done, ret_jar, failed_at_detect>>
    /\ UNCHANGED tracev

\* take_screenshots_of_visible_nodes: is_node_visible for every node of the
\* candidate set; the visible ones (or their visible children) are kept
SDcVisible ==
    /\ spc = "dc_vis"
    /\ \/ /\ \E v \in 0..SetSize(shot_phase) :
                /\ shot_vis' = v
                /\ vis_counts' = Append(vis_counts, v)
          /\ shot_i' = 0
          /\ Goto("dc_cap")
       \/ /\ \E e \in Caught : FailLocked(e)
          /\ UNCHANGED <<shot_vis, shot_i, vis_counts>>
    /\ SessionFrame
    /\ UNCHANGED <<lockv, skipv, stopv, logs, detv, crawlerv, tabv, jar, candv,
                   shot_phase, to_delete, histv>>
    /\ UNCHANGED <<visit, loaded_at_exit>>

\* take_screenshots_of_nodes: _highlight_node, take_screenshot(name + '-' +
\* str(index)), _hide_highlight for the next kept node
SDcCapture ==
    /\ spc = "dc_cap"
    /\ shot_i < shot_vis
    /\ \/ /\ screenshots' = AddScreenshot(screenshots, <<SetName(shot_phase), shot_i>>)
          /\ shot_i' = shot_i + 1
          /\ Goto("dc_cap")
       \/ /\ \E e \in Caught : FailLocked(e)
          /\ UNCHANGED <<screenshots, shot_i>>
    /\ SessionFrame
    /\ UNCHANGED <<lockv, skipv, stopv, logs, language, is_cmp_defined, cookies,
                   crawlerv, tabv, jar, candv, shot_phase, shot_vis, to_delete, histv>>
    /\ UNCHANGED tracev

\* the enumerate loop is exhausted: the next candidate set, or the end of
\* the with lock_m block (the candidate sets are not read again and are
\* cleared there)
SDcNextSet ==
    /\ spc = "dc_cap"
    /\ shot_i = shot_vis
    /\ shot_phase' = shot_phase + 1
    /\ shot_vis' = 0
    /\ shot_i' = 0
    /\ IF shot_phase = 3
          THEN /\ Goto("dc_exit_m")
               /\ n_rules' = 0 /\ n_fixed' = 0 /\ n_full' = 0
          ELSE /\ Goto("dc_vis")
               /\ UNCHANGED candv
    /\ SessionFrame
    /\ UNCHANGED <<lockv, skipv, stopv, logs, detv, crawlerv, tabv, jar,
                   to_delete, histv>>
    /\ UNCHANGED tracev

\* leaving with lock_m
SDcExitM ==
    /\ spc = "dc_exit_m"
    /\ lock_m' = Free
    /\ Goto("dc_exit_l")
    /\ SessionFrame
    /\ UNCHANGED <<lock_l, lock_n, skipv, stopv, logs, detv, crawlerv, tabv, jar,
                   candv, shotv, to_delete, histv>>
    /\ UNCHANGED tracev

\* leaving with lock_l; a pending exception now reaches crawl's except clauses
SDcExitL ==
    /\ spc = "dc_exit_l"
    /\ lock_l' = Free
    /\ IF s_exc = "none"
          THEN /\ Goto("dc_save")
               /\ UNCHANGED histv
          ELSE /\ failed' = TRUE
               /\ failed_reason' = <<s_exc, 0>>
               /\ failed_exception' = s_exc
               /\ s_exc' = "none"
               /\ spc' = "cr_stop"
               /\ detect_done' = "raised"
               /\ UNCHANGED <<raised, done_steps, ret_jar, failed_at_detect>>
    /\ SessionFrame
    /\ UNCHANGED <<lock_n, lock_m, skipv, stopv, logs, detv, crawlerv, tabv, jar,
                   candv, shotv, to_delete>>
    /\ UNCHANGED tracev

\* self.save_screenshots(): open() and write() may raise OSError
SDcSave ==
    /\ spc = "dc_save"
    /\ \/ /\ Goto("dc_cookies")
          /\ UNCHANGED histv
       \/ Fail("other")
    /\ SessionFrame
    /\ UNCHANGED <<lockv, skipv, stopv, logs, detv, crawlerv, tabv, jar, candv,
                   shotv, to_delete>>
    /\ UNCHANGED tracev

\* self.webpage.set_cookies('all', self._get_all_cookies())
SDcGetCookies ==
    /\ spc = "dc_cookies"
    /\ \/ /\ cookies' = [k \in {"all"} |-> jar]
          /\ done_steps' = done_steps \cup {"cookies"}
          /\ Goto("dc_del_test")
          /\ UNCHANGED <<detect_done, ret_jar, failed_at_detect>>
       \/ /\ \E e \in Caught : Fail(e)
          /\ cookies' = cookies
    /\ SessionFrame
    /\ UNCHANGED <<lockv, skipv, stopv, logs, language, is_cmp_defined, screenshots,
                   crawlerv, tabv, jar, candv, shotv, to_delete>>
    /\ UNCHANGED tracev

\* _delete_all_cookies as it would be without its while loop: one pass
PurgeDone_OnePass == "delete" \in done_steps \/ jar = {}

\* _delete_all_cookies: the while condition, negated:
\* len(self._get_all_cookies()) == 0
PurgeDone == jar = {}

\* _delete_all_cookies: while(len(self._get_all_cookies()) != 0); when the
\* loop ends detect_cookie_notices returns
SDcDelTest ==
    /\ spc = "dc_del_test"
    /\ \/ /\ PurgeDone
          /\ Returned
          /\ UNCHANGED <<done_steps, failed_at_detect>>
       \/ /\ ~PurgeDone
          /\ Goto("dc_del_fetch")
          /\ UNCHANGED histv
       \/ \E e \in Caught : Fail(e)
    /\ SessionFrame
    /\ UNCHANGED <<lockv, skipv, stopv, logs, detv, crawlerv, tabv, jar, candv,
                   shotv, to_delete>>
    /\ UNCHANGED tracev

\* _delete_all_cookies: for cookie in self._get_all_cookies()
SDcDelFetch ==
    /\ spc = "dc_del_fetch"
    /\ \/ /\ to_delete' = jar
          /\ Goto("dc_del_one")
          /\ UNCHANGED histv
       \/ /\ \E e \in Caught : Fail(e)
          /\ to_delete' = to_delete
    /\ SessionFrame
    /\ UNCHANGED <<lockv, skipv, stopv, logs, detv, crawlerv, tabv, jar, candv, shotv>>
    /\ UNCHANGED tracev

\* _delete_all_cookies: self.tab.Network.deleteCookies(...) for the next
\* cookie of the list, or the end of the for loop
SDcDelOne ==
    /\ spc = "dc_del_one"
    /\ \/ /\ to_delete = {}
          /\ Goto("dc_del_test")
          /\ UNCHANGED <<jar, to_delete, histv>>
       \/ /\ \E c \in to_delete :
             /\ jar' = jar \ {c}
             /\ to_delete' = to_delete \ {c}
          /\ done_steps' = done_steps \cup {"delete"}
          /\ Goto("dc_del_one")
          /\ UNCHANGED <<detect_done, ret_jar, failed_at_detect>>
       \/ /\ to_delete # {}
          /\ \E e \in Caught : Fail(e)
          /\ UNCHANGED <<jar, to_delete>>
    /\ SessionFrame
    /\ UNCHANGED <<lockv, skipv, stopv, logs, detv, crawlerv, tabv, candv, shotv>>
    /\ UNCHANGED tracev

\* ------------------------------------------------------------ teardown
\* crawl: self.tab.stop(); return self.webpage
SCrStop ==
    /\ spc = "cr_stop"
    /\ tab_state' = "stopped"
    /\ Goto("cp_close")
    /\ SessionFrame
    /\ UNCHANGED <<lockv, skipv, stopv, logs, detv, crawlerv, registered, enabled,
                   navigated, scripts_disabled, jar, candv, shotv, to_delete, histv>>
    /\ UNCHANGED tracev

\* crawl_page: self.browser.close_tab(tab); return page_crawler.get_result()
SCpCloseTab ==
    /\ spc = "cp_close"
    /\ tab_state' = "closed"
    /\ Goto("done")
    /\ SessionFrame
    /\ UNCHANGED <<lockv, skipv, stopv, logs, detv, crawlerv, registered, enabled,
                   navigated, scripts_disabled, jar, candv, shotv, to_delete, histv>>
    /\ UNCHANGED tracev

\* ------------------------------------------------------ event callbacks
\* the tab's event thread delivers events of an enabled domain to the
\* registered callbacks from tab.start() until tab.stop()
Delivering(domain) ==
    /\ tab_state = "started"
    /\ registered
    /\ domain \in enabled
    /\ spc \notin {"died", "done"}

\* Inside the load wait the worker reads nothing a Network callback writes
\* and writes nothing it reads, so a Network event delivered there has the
\* effect of the same event delivered right after the load wait: the model
\* delivers it then.
NetworkDeferred == spc \in {"cr_loop_test", "cr_loop_body"}

\* The worker reads the cookie jar in _get_all_cookies only, so a cookie set
\* earlier in the session has the effect of the same cookie set when
\* detect_cookie_notices begins or when its cookie steps begin: the model
\* sets it then, or during the cookie steps.
CookieObservable == spc \in {"dc_lang", "dc_cookies", "dc_del_test", "dc_del_fetch", "dc_del_one"}

\* variables no callback and no script of the page writes
EventFrame ==
    UNCHANGED <<poolvars, ctl, raised, hostname, skipv, stopv, detv, waited, tabv,
                candv, shotv, to_delete, histv, tracev, oraclev, domv>>

\* WebpageResult.set_failed(reason) as a callback calls it: exception=None
SetFailedByEvent(reason) ==
    /\ failed' = TRUE
    /\ failed_reason' = reason
    /\ failed_exception' = "none"

\* _event_request_will_be_sent: add_request, then the first request id is
\* kept; reading self.requestId before crawl has set it raises
\* AttributeError, which the event thread logs and drops
SEventRequestWillBeSent(r) ==
    /\ Delivering("Network")
    /\ ~NetworkDeferred
    /\ events_left > 0
    /\ events_left' = events_left - 1
    /\ requested' = requested \cup {r}
    /\ requests' = Append(requests, r)
    /\ requestId' = IF requestId = "None" THEN r ELSE requestId
    /\ EventFrame
    /\ UNCHANGED <<outcome, responses, is_loaded, jar, cookie_sets_left, page_nodes>>

\* _event_response_received: add_response, then a 4xx/5xx status of the
\* primary request marks the page failed
SEventResponseReceived(r, status) ==
    /\ Delivering("Network")
    /\ ~NetworkDeferred
    /\ events_left > 0
    /\ r \in requested
    /\ events_left' = events_left - 1
    /\ responses' = Append(responses, [rid |-> r, status |-> status])
    /\ IF requestId # "unset" /\ r = requestId /\ IsErrorStatus(status)
          THEN SetFailedByEvent(<<"status code", status>>)
          ELSE UNCHANGED outcome
    /\ EventFrame
    /\ UNCHANGED <<requests, is_loaded, requestId, jar, requested, cookie_sets_left,
                   page_nodes>>

\* _event_loading_failed: a failure of the primary request marks the page
\* failed; errorText is not modelled
SEventLoadingFailed(r) ==
    /\ Delivering("Network")
    /\ ~NetworkDeferred
    /\ events_left > 0
    /\ r \in requested
    /\ events_left' = events_left - 1
    /\ IF requestId # "unset" /\ r = requestId
          THEN SetFailedByEvent(<<"loading failed", 0>>)
          ELSE UNCHANGED outcome
    /\ EventFrame
    /\ UNCHANGED <<logs, is_loaded, requestId, jar, requested, cookie_sets_left,
                   page_nodes>>

\* _event_load_event_fired: self._is_loaded = True
SEventLoadEventFired ==
    /\ Delivering("Page")
    /\ navigated
    /\ ~is_loaded
    /\ is_loaded' = TRUE
    /\ EventFrame
    /\ UNCHANGED <<outcome, logs, requestId, envv>>

\* a script of the page sets a cookie
SPageSetsCookie(c) ==
    /\ tab_state = "started"
    /\ navigated
    /\ ~scripts_disabled
    /\ CookieObservable
    /\ cookie_sets_left > 0
    /\ c \notin jar
    /\ jar' = jar \cup {c}
    /\ cookie_sets_left' = cookie_sets_left - 1
    /\ EventFrame
    /\ UNCHANGED <<outcome, logs, is_loaded, requestId, requested, events_left,
                   page_nodes>>

\* the steps of crawl_page, crawl and detect_cookie_notices on a page without
\* candidate nodes and with an empty cookie jar
WorkerSteps ==
    \/ SCpAcquireN
    \/ SCpAcquireM
    \/ SCpReleaseN
    \/ SCpNewTab
    \/ SCpExitM
    \/ SCrInit
    \/ SStStart
    \/ SStEnable
    \/ SCrReqId
    \/ SCrDeny
    \/ SCrNavigate
    \/ SCrLoopTest
    \/ SCrLoopBody
    \/ SCrCeiling
    \/ SCrIdle
    \/ SCrGetDocument
    \/ SDcLanguage
    \/ SDcCmp
    \/ SDcRules
    \/ SDcSearchDisable
    \/ SDcSearch
    \/ SDcSearchEnable
    \/ SDcSeeds
    \/ SDcFixed
    \/ SDcFullWidth
    \/ SDcAcquireL
    \/ SDcAcquireN
    \/ SDcAcquireM
    \/ SDcReleaseN
    \/ SDcBringToFront
    \/ SDcOriginal
    \/ SDcVisible
    \/ SDcNextSet
    \/ SDcExitM
    \/ SDcExitL
    \/ SDcSave
    \/ SDcGetCookies
    \/ SDcDelTest
    \/ SCrStop
    \/ SCpCloseTab

NextSession ==
    \/ WorkerSteps
    \/ \E r \in ReqIds : SEventRequestWillBeSent(r)
    \/ \E r \in ReqIds, status \in Statuses : SEventResponseReceived(r, status)
    \/ \E r \in ReqIds : SEventLoadingFailed(r)
    \/ SEventLoadEventFired

NextDetect ==
    \/ WorkerSteps
    \/ SDcCapture
    \/ SDcDelFetch
    \/ SDcDelOne
    \/ SEventLoadEventFired
    \/ \E c \in CookieIds : SPageSetsCookie(c)

SpecSession == InitSession /\ [][NextSession]_vars

SpecDetect == InitDetect /\ [][NextDetect]_vars

\* ------------------------------------------- the purge on a page that
\* sets its cookies again (SpecPurge)
\* a script of the page sets a cookie, as often as it likes (a timer that
\* writes document.cookie): the jar is all that changes
SPageResetsCookie(c) ==
    /\ tab_state = "started"
    /\ navigated
    /\ ~scripts_disabled
    /\ CookieObservable
    /\ c \notin jar
    /\ jar' = jar \cup {c}
    /\ EventFrame
    /\ UNCHANGED <<outcome, logs, is_loaded, requestId, requested, events_left,
                   cookie_sets_left, page_nodes>>

InitPurge ==
    /\ PoolInit /\ OracleIdle /\ DomIdle
    /\ \E h \in {"host", "null"}, n \in 0..MaxNodes : SessionInit(h, 0, 0, n)

\* the steps of the worker process
WorkerRuns == WorkerSteps \/ SDcCapture \/ SDcDelFetch \/ SDcDelOne

NextPurge ==
    \/ WorkerSteps
    \/ SDcCapture
    \/ SDcDelFetch
    \/ SDcDelOne
    \/ SEventLoadEventFired
    \/ \E c \in CookieIds : SPageResetsCookie(c)

\* the worker process keeps running: whenever it has a step to take it
\* takes one
SpecPurge == InitPurge /\ [][NextPurge]_vars /\ WF_vars(WorkerRuns)

\* ===================================================== AdblockPlusFilter
\* hostnames and the domains of rules, as strings of characters
DomainNames == {<<"a">>, <<"a", "b">>, <<"c">>}
Hostnames == {<<"a", "b">>, <<"b", "a", "b">>, <<"b">>}

\* sequences over S of length at most n
SeqsUpTo(S, n) == UNION {[1..k -> S] : k \in 0..n}

\* the value of a domain option: entries (domain, applicable); an exclusion
\* (~domain) has applicable = False
DomainEntries == DomainNames \X BOOLEAN

\* a retained css rule: its options hold no domain option or one
Rules ==
    {[options |-> <<>>]} \cup
    {[options |-> <<<<"domain", ds>>>>] : ds \in SeqsUpTo(DomainEntries, MaxDomains)}

\* opt_domain in hostname: Python's substring test
IsSubstring(d, h) ==
    \E i \in 0..(Len(h) - Len(d)) : SubSeq(h, i + 1, i + Len(d)) = d

\* for opt_domain, _ in domains: if opt_domain in hostname: return True;
\* return False
RECURSIVE AnyDomainIn(_, _)
AnyDomainIn(domains, host) ==
    IF domains = <<>> THEN FALSE
    ELSE IF IsSubstring(Head(domains)[1], host) THEN TRUE
    ELSE AnyDomainIn(Tail(domains), host)

IsKeyDomain(option) == option[1] = "domain"
IsEntryApplicable(entry) == entry[2] = TRUE

\* _is_rule_applicable as it would be without the filter on opt_applicable
IsRuleApplicable_KeepExclusions(rule, host) ==
    LET domain_options == SelectSeq(rule.options, IsKeyDomain)
    IN  IF Len(domain_options) = 0 THEN TRUE
        ELSE AnyDomainIn(domain_options[1][2], host)

\* AdblockPlusFilter._is_rule_applicable
IsRuleApplicable(rule, host) ==
    LET domain_options == SelectSeq(rule.options, IsKeyDomain)
    IN  IF Len(domain_options) = 0 THEN TRUE
        ELSE LET domains == SelectSeq(domain_options[1][2], IsEntryApplicable)
             IN  IF Len(domains) = 0 THEN TRUE
                 ELSE AnyDomainIn(domains, host)

\* AdblockPlusFilter.__init__: the rules of the filter list that are kept
InitOracle ==
    /\ PoolInit /\ SessionInit("host", 0, 0, 0) /\ DomIdle
    /\ rules \in SeqsUpTo(Rules, MaxRules)
    /\ asked = "none" /\ applicable = <<>>

\* AdblockPlusFilter.get_applicable_rules(hostname)
GetApplicableRules(host) ==
    /\ asked' = host
    /\ applicable' = LET Test(rule) == IsRuleApplicable(rule, host)
                     IN  SelectSeq(rules, Test)
    /\ UNCHANGED <<poolvars, pagev, rules, domv>>

NextOracle == \E h \in Hostnames : GetApplicableRules(h)

SpecOracle == InitOracle /\ [][NextOracle]_vars

\* ======================================== the DOM probes of WebpageCrawler
\* `dom` holds the nodes of one document below its document node, and
\* dom[i].parent is the parentNode of node i: another node, or Document.
Document == Len(dom) + 1

\* In SpecPromote, SpecFixed and SpecFullWidth `dom` is the chain of elements
\* from a node up to the html element of its document: each element is the
\* parentNode of the one before it.
Chain(elements) == [i \in DOMAIN elements |-> [parent |-> i + 1] @@ elements[i]]

\* every frame outside the probes
ProbeFrame == UNCHANGED <<poolvars, pagev, oraclev, dom>>

\* -------------------------------- find_parent_block_element (SpecPromote)
\* the list in _is_inline_element
InlineElements ==
    {"a", "abbr", "acronym", "b", "bdo", "big", "br", "button", "cite",
     "code", "dfn", "em", "i", "img", "input", "kbd", "label", "map",
     "object", "output", "q", "samp", "script", "select", "small",
     "span", "strong", "sub", "sup", "textarea", "time", "tt", "var"}

\* _get_node_name: describeNode(...)['node']['nodeName'].lower()
GetNodeName(n) == IF n = Document THEN "#document" ELSE dom[n].name

\* _is_inline_element: by the name of the node, not by its style
IsInlineElement(n) == GetNodeName(n) \in InlineElements

\* the JavaScript isInlineElement: getComputedStyle(elem).display == 'inline'
HasInlineStyle(elem) == dom[elem].display = "inline"

\* the walk as it would be with do { elem = elem.parentNode } while (...)
FindClosestBlockElement_StepFirst(elem) ==
    IF elem # Document THEN dom[elem].parent ELSE elem

\* the JavaScript findClosestBlockElement: while (elem && elem !== document
\* && isInlineElement(elem)) elem = elem.parentNode; return elem
RECURSIVE FindClosestBlockElement(_)
FindClosestBlockElement(elem) ==
    IF elem # Document /\ HasInlineStyle(elem)
       THEN FindClosestBlockElement(dom[elem].parent)
       ELSE elem

\* find_parent_block_element(node_id)
FindParentBlockElement(n) ==
    IF ~IsInlineElement(n) THEN n ELSE FindClosestBlockElement(n)

\* the elements a chain is drawn from: a name in and a name out of the list
\* of _is_inline_element, each with an inline or another computed display
PromoteElements == [name : {"span", "div"}, display : {"inline", "block", "none"}]

\* the root element of a document: its computed display is never inline
\* (CSS blockifies the display of the root element)
HtmlElements == [name : {"html"}, display : {"block", "none"}]

\* chains of at most MaxChain elements below the html element
InitPromote ==
    /\ PoolInit /\ SessionInit("host", 0, 0, 0) /\ OracleIdle
    /\ \E below \in SeqsUpTo(PromoteElements, MaxChain), top \in HtmlElements :
          dom = Chain(Append(below, top))
    /\ probed = <<"none", 0>> /\ answer = "none"

\* a call of find_parent_block_element on element n of the chain
Promote(n) ==
    /\ probed' = <<"find_parent_block_element", n>>
    /\ answer' = FindParentBlockElement(n)
    /\ ProbeFrame

NextPromote == \E n \in DOMAIN dom : Promote(n)

SpecPromote == InitPromote /\ [][NextPromote]_vars

\* ------------------------------------------ find_fixed_parent (SpecFixed)
\* 'fixed_parent': None
NoNode == 0

\* _get_root_frame_id: the id of the frame at the root of the frame tree
RootFrameId == "root"

\* the frame owner as it would be if the html element of the frame were taken
GetFrameOwner_Html(frameId) == Len(dom)

\* DOM.getFrameOwner(frameId): the element of the parent document that holds
\* the frame, a node outside the chain
GetFrameOwner(frameId) == Document + 1

\* _is_html_node
IsHtmlNode(n) == GetNodeName(n) = "html"

\* the JavaScript findFixedParent: while (elem && elem.parentNode !==
\* document) { if position is fixed return elem; elem = elem.parentNode };
\* return elem
RECURSIVE FindFixedParentJs(_)
FindFixedParentJs(elem) ==
    IF dom[elem].parent # Document
       THEN IF dom[elem].position = "fixed"
               THEN elem
               ELSE FindFixedParentJs(dom[elem].parent)
       ELSE elem

\* find_fixed_parent(node_id)
FindFixedParent(n) ==
    LET result_node_id == FindFixedParentJs(n)
    IN  IF IsHtmlNode(result_node_id)
           THEN IF RootFrameId = dom[result_node_id].frameId
                   THEN [has_fixed_parent |-> FALSE, fixed_parent |-> NoNode]
                   ELSE [has_fixed_parent |-> TRUE,
                         fixed_parent |-> GetFrameOwner(dom[result_node_id].frameId)]
           ELSE [has_fixed_parent |-> TRUE, fixed_parent |-> result_node_id]

\* the elements below html, and the html element of the root frame or of a
\* child frame
FixedElements == [name : {"div", "span"}, position : {"fixed", "static"}]
FixedHtmlElements ==
    [name : {"html"}, position : {"fixed", "static"}, frameId : {"root", "child"}]

InitFixed ==
    /\ PoolInit /\ SessionInit("host", 0, 0, 0) /\ OracleIdle
    /\ \E below \in SeqsUpTo(FixedElements, MaxChain), top \in FixedHtmlElements :
          dom = Chain(Append(below, top))
    /\ probed = <<"none", 0>> /\ answer = "none"

\* a call of find_fixed_parent on element n of the chain
FixedParent(n) ==
    /\ probed' = <<"find_fixed_parent", n>>
    /\ answer' = FindFixedParent(n)
    /\ ProbeFrame

NextFixed == \E n \in DOMAIN dom : FixedParent(n)

SpecFixed == InitFixed /\ [][NextFixed]_vars

\* --------------------------------- find_full_width_parent (SpecFullWidth)
\* Lengths of a computed style are kept in half pixels: 201 is '100.5px'.
\* parseInt of such a length drops the fraction, towards zero.
ParseInt(v) == IF v >= 0 THEN v \div 2 ELSE -((-v) \div 2)

\* getWidth as it would be without the box-sizing cases
GetWidth_ContentOnly(e) == ParseInt(dom[e].width)

\* the JavaScript getWidth(elem), in pixels
GetWidth(e) ==
    LET style == dom[e]
    IN  IF style.boxSizing = "content-box"
           THEN ParseInt(style.width) +
                ParseInt(style.paddingLeft) + ParseInt(style.paddingRight) +
                ParseInt(style.borderLeftWidth) + ParseInt(style.borderRightWidth) +
                ParseInt(style.marginLeft) + ParseInt(style.marginRight)
           ELSE ParseInt(style.width) + ParseInt(style.marginLeft) +
                ParseInt(style.marginRight)

\* the JavaScript getHeight(elem), in pixels
GetHeight(e) ==
    LET style == dom[e]
    IN  IF style.boxSizing = "content-box"
           THEN ParseInt(style.height) +
                ParseInt(style.paddingTop) + ParseInt(style.paddingBottom) +
                ParseInt(style.borderTopWidth) + ParseInt(style.borderBottomWidth) +
                ParseInt(style.marginTop) + ParseInt(style.marginBottom)
           ELSE ParseInt(style.height) + ParseInt(style.marginTop) +
                ParseInt(style.marginBottom)

\* the JavaScript getVerticalSpacing(elem), in pixels
GetVerticalSpacing(e) ==
    LET style == dom[e]
    IN  ParseInt(style.paddingTop) + ParseInt(style.paddingBottom) +
        ParseInt(style.borderTopWidth) + ParseInt(style.borderBottomWidth) +
        ParseInt(style.marginTop) + ParseInt(style.marginBottom)

\* the JavaScript isParentHigherThanItsSpacing(outerElem, innerElem):
\* getHeightDiff > getVerticalSpacing(outer) + Math.max(0.25 * getHeight(inner), 20),
\* both sides taken four times to stay in the integers
IsParentHigherThanItsSpacing(outer, inner) ==
    LET h == GetHeight(inner)
        allowedIncrease4 == IF h > 80 THEN h ELSE 80
    IN  4 * (GetHeight(outer) - h) > 4 * GetVerticalSpacing(outer) + allowedIncrease4

\* the loop of findFullWidthParent: the element it stops at, or Document
\* when getComputedStyle is called on the document node, which throws a
\* TypeError (parent = elem.parentNode is the document when elem is html)
RECURSIVE WalkUp(_)
WalkUp(elem) ==
    IF elem = Document
       THEN elem
       ELSE IF dom[elem].parent = Document
               THEN Document
               ELSE IF IsParentHigherThanItsSpacing(dom[elem].parent, elem)
                       THEN elem
                       ELSE WalkUp(dom[elem].parent)

\* document.body: the element below html
Body == Len(dom) - 1

\* the JavaScript findFullWidthParent as Runtime.callFunctionOn returns it:
\* the element, the boolean false, or the object of the exception thrown
FindFullWidthParentJs(n) ==
    LET elem == WalkUp(n)
    IN  IF elem = Document
           THEN [type |-> "object", subtype |-> "error", value |-> FALSE, node |-> NoNode]
           ELSE IF ParseInt(dom[Body].width) <= GetWidth(elem)
                   THEN [type |-> "object", subtype |-> "node", value |-> FALSE,
                         node |-> elem]
                   ELSE [type |-> "boolean", subtype |-> "none", value |-> FALSE,
                         node |-> NoNode]

\* find_full_width_parent(node_id): DOM.requestNode on an object that is not
\* a node is rejected by the browser, and pychrome raises CallMethodException
FindFullWidthParent(n) ==
    LET result == FindFullWidthParentJs(n)
    IN  IF result.type = "boolean"
           THEN [raised |-> "none", parent_node_exists |-> result.value,
                 parent_node |-> NoNode]
           ELSE IF result.subtype = "node"
                   THEN [raised |-> "none", parent_node_exists |-> TRUE,
                         parent_node |-> result.node]
                   ELSE [raised |-> "call_method", parent_node_exists |-> FALSE,
                         parent_node |-> NoNode]

\* a computed style with the same padding, border and margin on its four
\* sides
BoxStyle(box, w, h, edge) ==
    [boxSizing |-> box, width |-> w, height |-> h,
     paddingLeft |-> edge, paddingRight |-> edge,
     paddingTop |-> edge, paddingBottom |-> edge,
     borderLeftWidth |-> edge, borderRightWidth |-> edge,
     borderTopWidth |-> edge, borderBottomWidth |-> edge,
     marginLeft |-> edge, marginRight |-> edge,
     marginTop |-> edge, marginBottom |-> edge]

\* widths of 90, 100 and 100.5 px, heights of 40 and 200 px, edges of 0 and
\* 2.5 px
BoxStyles ==
    {BoxStyle(box, w, h, edge) : box \in {"content-box", "border-box"},
                                 w \in {180, 200, 201}, h \in {80, 400},
                                 edge \in {0, 5}}
HtmlStyles == {BoxStyle("content-box", 200, h, 0) : h \in {80, 400}}

\* the chain of a seed: at most MaxChain elements below html, the last of
\* them body
InitFullWidth ==
    /\ PoolInit /\ SessionInit("host", 0, 0, 0) /\ OracleIdle
    /\ \E below \in SeqsUpTo(BoxStyles, MaxChain - 1), body \in BoxStyles,
          top \in HtmlStyles :
          dom = Chain(below \o <<body, top>>)
    /\ probed = <<"none", 0>> /\ answer = "none"

\* a call of find_full_width_parent on element n of the chain
FullWidthParent(n) ==
    /\ probed' = <<"find_full_width_parent", n>>
    /\ answer' = FindFullWidthParent(n)
    /\ ProbeFrame

NextFullWidth == \E n \in DOMAIN dom : FullWidthParent(n)

SpecFullWidth == InitFullWidth /\ [][NextFullWidth]_vars

\* ------------------------------------------ is_node_visible (SpecVisible)
\* In SpecVisible and SpecSeeds `dom` is a tree in document order: dom[1] is
\* the html element, and the parentNode of every other node is a node
\* before it.
\* What isVisible reads of a node: whether it is an Element; display,
\* opacity (in hundredths) and visibility of its computed style; its offset
\* and bounding-rect sizes; whether its centre lies in the viewport; and
\* whether document.elementFromPoint(centre) is the node or inside it.
Look(kind) ==
    [kind |-> kind,
     element |-> kind # "text",
     display |-> IF kind = "none" THEN "none" ELSE "block",
     opacity |-> IF kind = "faint" THEN 5 ELSE 100,
     visibility |-> IF kind = "hidden" THEN "hidden" ELSE "visible",
     offsetWidth |-> IF kind \in {"outside", "covered", "shown"} THEN 10 ELSE 0,
     offsetHeight |-> IF kind \in {"outside", "covered", "shown"} THEN 10 ELSE 0,
     rectWidth |-> IF kind \in {"outside", "covered", "shown"} THEN 10 ELSE 0,
     rectHeight |-> IF kind \in {"outside", "covered", "shown"} THEN 10 ELSE 0,
     centreInViewport |-> kind # "outside",
     hit |-> kind = "shown"]

\* a text node; elements with display:none, opacity 0.05, visibility:hidden;
\* a 0x0 element; an element outside the viewport; an element covered by
\* another at its centre; an element hit at its centre
Kinds == {"text", "none", "faint", "hidden", "zero", "outside", "covered", "shown"}

\* no child is looked at, as if the loop over childNodes were missing
ScanChildren_None(elem, i) == NoNode

\* the JavaScript isVisible(elem): the element returned, or NoNode for false;
\* ScanChildren is its loop over elem.childNodes from node i on
RECURSIVE IsVisibleJs(_), ScanChildren(_, _)
ScanChildren(elem, i) ==
    IF i > Len(dom)
       THEN NoNode
       ELSE IF dom[i].parent = elem /\ IsVisibleJs(i) # NoNode
               THEN IsVisibleJs(i)
               ELSE ScanChildren(elem, i + 1)

IsVisibleJs(elem) ==
    LET n == dom[elem]
        visible ==
            /\ ~(n.offsetWidth + n.offsetHeight + n.rectHeight + n.rectWidth = 0)
            /\ ~(n.offsetWidth = 0 \/ n.offsetHeight = 0)
            /\ n.centreInViewport
    IN  IF ~n.element THEN NoNode
        ELSE IF n.display = "none" THEN NoNode
        ELSE IF n.opacity < 10 THEN NoNode
        ELSE IF n.visibility # "visible" THEN NoNode
        ELSE IF visible
                THEN IF n.hit THEN elem ELSE NoNode
                ELSE ScanChildren(elem, elem + 1)

\* is_node_visible(node_id)
IsNodeVisible(n) ==
    LET result == IsVisibleJs(n)
    IN  IF result = NoNode
           THEN [is_visible |-> FALSE, visible_node |-> NoNode]
           ELSE [is_visible |-> TRUE, visible_node |-> result]

\* node i has an ancestor with display:none in the tree of kinds k and
\* parents p
RECURSIVE UnderDisplayNone(_, _, _)
UnderDisplayNone(k, p, i) ==
    /\ p[i] \in DOMAIN p
    /\ (k[p[i]] = "none" \/ UnderDisplayNone(k, p, p[i]))

\* the trees a browser can hold: a text node has no children, and a node
\* inside a display:none subtree has no box
IsDomTree(k, p) ==
    /\ p[1] = Len(p) + 1
    /\ k[1] # "text"
    /\ \A i \in DOMAIN p \ {1} : p[i] \in 1..(i - 1)
    /\ \A i \in DOMAIN p \ {1} :
          /\ k[p[i]] # "text"
          /\ UnderDisplayNone(k, p, i) => k[i] \notin {"outside", "covered", "shown"}

\* trees of at most MaxTree nodes
InitVisible ==
    /\ PoolInit /\ SessionInit("host", 0, 0, 0) /\ OracleIdle
    /\ \E n \in 1..MaxTree :
          \E k \in [1..n -> Kinds], p \in [1..n -> 1..(n + 1)] :
              /\ IsDomTree(k, p)
              /\ dom = [i \in 1..n |-> [parent |-> p[i]] @@ Look(k[i])]
    /\ probed = <<"none", 0>> /\ answer = "none"

\* a call of is_node_visible on node n of the tree
NodeVisible(n) ==
    /\ probed' = <<"is_node_visible", n>>
    /\ answer' = IsNodeVisible(n)
    /\ ProbeFrame

NextVisible == \E n \in DOMAIN dom : NodeVisible(n)

SpecVisible == InitVisible /\ [][NextVisible]_vars

\* ------------------- detect_cookie_notices: the text seeds (SpecSeeds)
\* _filter_visible_nodes(node_ids)
FilterVisibleNodes(node_ids) == {n \in node_ids : IsNodeVisible(n).is_visible}

\* detect_cookie_notices: the seeds of the fixed-parent and full-width
\* strategies, from the nodes search_for_string('cookie') returned:
\* _filter_visible_nodes first, then find_parent_block_element for each
TextSeeds(hits) == {FindParentBlockElement(n) : n \in FilterVisibleNodes(hits)}

\* a node of the tree: what isVisible reads of it, its name, and its
\* computed display, which is 'none', 'inline' or another one
SeedNode(kind, name, display, parent) ==
    [parent |-> parent, name |-> name,
     display |-> IF kind = "none" THEN "none" ELSE display] @@ Look(kind)

\* trees of at most MaxTree nodes below the document node: the html
\* element, whose display is never inline, and text nodes and elements
\* with a name in or out of the list of _is_inline_element
InitSeeds ==
    /\ PoolInit /\ SessionInit("host", 0, 0, 0) /\ OracleIdle
    /\ \E n \in 1..MaxTree :
          \E k \in [1..n -> Kinds], p \in [1..n -> 1..(n + 1)],
             nm \in [1..n -> {"span", "div"}], d \in [1..n -> {"inline", "block"}] :
              /\ IsDomTree(k, p)
              /\ nm[1] = "div" /\ d[1] = "block"
              /\ \A i \in 1..n : k[i] \in {"text", "none"} => (nm[i] = "div" /\ d[i] = "block")
              /\ dom = [i \in 1..n |->
                           SeedNode(k[i],
                                    IF i = 1 THEN "html"
                                    ELSE IF k[i] = "text" THEN "#text" ELSE nm[i],
                                    d[i], p[i])]
    /\ probed = <<"none", 0>> /\ answer = "none"

\* the seeds computed from the elements `hits` that search_for_string found
Seeds(hits) ==
    /\ probed' = <<"text_seeds", hits>>
    /\ answer' = TextSeeds(hits)
    /\ ProbeFrame

\* the search returns elements below the html element
NextSeeds ==
    \E hits \in SUBSET {i \in DOMAIN dom \ {1} : dom[i].element} : Seeds(hits)

SpecSeeds == InitSeeds /\ [][NextSeeds]_vars

\* ------------------------------------------------ properties of Spec
\* w holds lock_m: between entering and leaving a `with lock_m` block
InM(w) == pc[w] \in {"cp_rel_n", "cp_new_tab", "cp_exit_m",
                     "dc_rel_n", "dc_front", "dc_shot", "dc_exit_m"}

\* w is in the screenshot critical section or creating its tab
InCritical(w) == pc[w] \in {"cp_new_tab", "dc_front", "dc_shot"}

\* C1: mutual exclusion on lock_m.  No two workers are inside a `with lock_m`
\* block at the same time, so the screenshot section (bringToFront and the
\* captures) of one worker never overlaps the screenshot section or the tab
\* creation of another.
C1_MutualExclusionM ==
    \A a, b \in Workers :
        a # b => ~(InM(a) /\ InM(b)) /\ ~(InCritical(a) /\ InCritical(b))

\* C1 witness: one worker captures under lock_m while another is blocked at
\* its `with lock_m`
C1_Witness ==
    \E a, b \in Workers :
        /\ pc[a] = "dc_shot" /\ shots[a] >= 1
        /\ pc[b] \in {"cp_acq_m", "dc_acq_m"}

\* C2 as claimed: a worker that acquired lock_l earlier enters lock_m before
\* every waiter that arrived later, tab creators included: no later arrival b
\* holds lock_m while the earlier a has not yet entered lock_m.
C2_FairHandoffAnyWaiter ==
    \A p \in later : pc[p[1]] \in {"dc_acq_n", "dc_acq_m"} => ~InM(p[2])

\* C2 amended: a worker that acquired lock_l earlier enters lock_m before
\* every later-arriving waiter of the screenshot section (one that started
\* waiting for lock_l afterwards).
C2_FairHandoffScreenshot ==
    \A p \in later :
        pc[p[2]] \in {"dc_acq_l", "dc_acq_n", "dc_acq_m", "dc_rel_n",
                      "dc_front", "dc_shot", "dc_exit_m", "dc_exit_l"}
            => pc[p[2]] = "dc_acq_l"

\* C2 witness: a took lock_l, b arrived afterwards for the screenshot
\* section, and a is now capturing under lock_m while b still waits
C2_Witness ==
    \E p \in later :
        /\ pc[p[1]] = "dc_shot" /\ shots[p[1]] >= 1
        /\ pc[p[2]] = "dc_acq_l"

\* C3: foreground consistency.  While a worker is between bringToFront and
\* its last capture, its own tab is the foreground tab, and no other worker
\* is at bringToFront, at a capture or at new_tab.
C3_ForegroundConsistency ==
    \A w \in Workers :
        pc[w] = "dc_shot" =>
            /\ foreground = w
            /\ tab[w] = "open"
            /\ \A v \in Workers \ {w} : ~InCritical(v)

\* C3 witness: a worker has taken the original and a highlighted capture
\* while another worker, with a tab of its own open, waits for the section
C3_Witness ==
    \E w, v \in Workers :
        /\ pc[w] = "dc_shot" /\ shots[w] >= 2
        /\ v # w /\ tab[v] = "open" /\ pc[v] \in {"dc_acq_l", "dc_acq_n", "dc_acq_m"}

\* every page has been taken and every task has ended
PoolDrained == pending = 0 /\ \A w \in Workers : pc[w] = "idle"

\* C14: every page submitted to the pool yields exactly one result posted
\* to the aggregator callback, whatever happened during its crawl: when the
\* pool has drained, as many results were posted as pages were submitted.
C14_EveryPagePosted == PoolDrained => posted = MaxPages

\* ------------------------------------------------ properties of SpecFair
\* w waits to enter a `with lock_m` block: for tab creation, or for the
\* screenshot section (from `with lock_l` on)
WaitsForM(w) == pc[w] \in {"cp_acq_n", "cp_acq_m", "dc_acq_l", "dc_acq_n", "dc_acq_m"}

\* C16: no reachable state with a waiting worker is a deadlock, a worker
\* stops waiting for tab creation or for the screenshot section only by
\* entering it, and no worker waits for ever, also when another worker's
\* section ends with an exception.
C16_TripleLockLiveness ==
    /\ []((\E w \in Workers : WaitsForM(w)) => ENABLED Next)
    /\ [][\A w \in Workers : (WaitsForM(w) /\ ~WaitsForM(w)') => InM(w)']_vars
    /\ \A w \in Workers : []<>(~WaitsForM(w))

\* a worker waits for lock_l while the holder's section ends with an exception
C16_Witness ==
    \E a, b \in Workers :
        /\ pc[a] = "dc_acq_l"
        /\ lock_l = b
        /\ pc[b] = "dc_exit_m"
        /\ exc[b] \in Caught

\* ============================================= properties of SpecSession
\* the task has ended: crawl_page returned, or an exception left it
Ended == spc \in {"done", "died"}

\* C4: for every page whose tab was created, the tab is stopped and closed
\* when the worker's task ends, whatever the path through the session.
C4_TeardownAlways == (Ended /\ tab_state # "none") => tab_state = "closed"

\* C5: every wire call of the session that times out or that the browser
\* rejects ends the page with that failed reason and the exception as its
\* cause, and crawl returns instead of propagating the error.
C5_WireErrorsBecomeFailed ==
    raised \in Caught =>
        /\ spc # "died"
        /\ spc = "done" =>
              /\ failed
              /\ failed_reason = <<raised, 0>>
              /\ failed_exception = raised

\* the responses recorded for the primary request with a 4xx or 5xx status
PrimaryErrorResponses ==
    {i \in DOMAIN responses :
        responses[i].rid = requestId /\ IsErrorStatus(responses[i].status)}

\* C6: when crawl has returned, the failed reason is 'status code <status>'
\* for every recorded response of the primary request with a 4xx or 5xx
\* status; no later event or exception has replaced it.
C6_StatusCodeReasonKept ==
    spc = "done" =>
        \A i \in PrimaryErrorResponses :
            failed /\ failed_reason = <<"status code", responses[i].status>>

\* C7: a page marked failed by a 4xx/5xx response of the primary request
\* before detection starts gets no detection: no screenshots, and language,
\* cmpDefined and cookies stay unwritten.
C7_NoDetectionAfterFailure ==
    failed_at_detect =>
        /\ screenshots = <<>>
        /\ language = "null"
        /\ "cmp" \notin done_steps
        /\ DOMAIN cookies = {}

\* C8: the load wait ends only on the load event or at the ceiling of 300
\* polls of 0.1 s and never runs past it; when it ends without the load
\* event, stopped_waiting is set with reason 'load event', the failed fields
\* are left as they are, and the idle wait, the document fetch and (unless
\* the fetch raises) detection follow.
C8_LoadCeiling ==
    [][ /\ waited' <= LoadCeilingPolls
        /\ (spc = "cr_loop_test" /\ spc' = "cr_ceiling")
              => (is_loaded \/ waited = LoadCeilingPolls)
        /\ (spc = "cr_ceiling" /\ spc' # spc /\ waited = LoadCeilingPolls)
              => /\ stopped_waiting'
                 /\ stopped_waiting_reason' = "load event"
                 /\ UNCHANGED outcome
                 /\ spc' = "cr_idle"
        /\ (spc = "cr_idle" /\ spc' # spc) => spc' = "cr_getdoc"
        /\ (spc = "cr_getdoc" /\ spc' # spc)
              => (spc' = "dc_lang" \/ (spc' = "cr_stop" /\ raised' \in Caught))
      ]_vars

\* the load event never fired, the ceiling was recorded and detection runs
C8_Witness ==
    /\ ~is_loaded
    /\ stopped_waiting /\ stopped_waiting_reason = "load event"
    /\ ~failed
    /\ spc = "dc_cmp"

\* C13: a page whose URL yields no hostname is marked failed before any tab
\* is opened for it, and no tab is ever created for it.
C13_NoTabWithoutHostname ==
    hostname = "null" =>
        /\ tab_state = "none"
        /\ Ended => failed

\* C17: the primary request id is the id of the first requestWillBeSent
\* event delivered to the session after the subscriptions were registered,
\* whenever during the session that event was delivered.
C17_PrimaryIsFirstRequest ==
    requestId \notin {"unset", "None"} => requestId = requests[1]

\* a step of one of the four event callbacks
EventCallback ==
    \/ \E r \in ReqIds : SEventRequestWillBeSent(r)
    \/ \E r \in ReqIds, status \in Statuses : SEventResponseReceived(r, status)
    \/ \E r \in ReqIds : SEventLoadingFailed(r)
    \/ SEventLoadEventFired

\* C18: a step of an event callback leaves every field of the page result
\* but the requests and the responses unchanged: the outcome flags (failed,
\* skipped, stopped waiting, with their reasons), the language, the CMP
\* flag, the cookies and the screenshots are written by the worker only.
C18_CallbacksOnlyAppend ==
    [][EventCallback => UNCHANGED <<outcome, skipv, stopv, detv>>]_vars

\* the position of step x in the visit sequence, 0 when it has not been made
Pos(x) == IF \E i \in DOMAIN visit : visit[i] = x
             THEN CHOOSE i \in DOMAIN visit : visit[i] = x
             ELSE 0

\* step a was made, and before step b if b was made
Precedes(a, b) == Pos(b) > 0 => (Pos(a) > 0 /\ Pos(a) < Pos(b))

\* C19: in every run of crawl the callbacks are registered before any
\* domain of the tab is enabled, the notifications permission is denied for
\* both origins before Page.navigate, navigation precedes the load wait, the
\* idle wait follows the load wait, and the document root was fetched when a
\* detection step runs.
C19_VisitOrder ==
    /\ \A i \in DOMAIN SetupDomains : Precedes("callbacks", SetupDomains[i])
    /\ enabled # {} => Pos("callbacks") > 0
    /\ Precedes("deny host", "navigate")
    /\ Precedes("deny www.host", "navigate")
    /\ navigated => Pos("navigate") > 0
    /\ Precedes("navigate", "load wait")
    /\ Precedes("load wait", "idle")
    /\ Precedes("idle", "getDocument")
    /\ spc \in DetectPcs => Pos("getDocument") > 0
    /\ (language # "null" \/ done_steps # {}) => Pos("getDocument") > 0

\* C19 witness: a detection step runs after the whole visit sequence
C19_Witness ==
    /\ spc = "dc_rules"
    /\ "cmp" \in done_steps
    /\ Len(visit) = Len(SetupDomains) + 7

\* C20: script execution is disabled in the tab during the text search
\* only: whenever the worker is outside search_for_string, whether the
\* search returned or one of its wire calls failed, scripts run in the tab.
C20_ScriptsReenabled ==
    (tab_state = "started" /\ spc \notin {"dc_search", "dc_search_on"}) =>
        ~scripts_disabled

\* C26: stopped_waiting is set only when the load event was not observed:
\* when the load-wait loop exits with _is_loaded set, whatever the poll in
\* which the event was delivered, stopped_waiting stays false.
C26_StoppedOnlyWithoutLoad == stopped_waiting => ~loaded_at_exit

\* ============================================== properties of SpecDetect
\* C9: when the detected language is neither 'en' nor 'de' it is stored, the
\* page is skipped with reason 'unimplemented language <lang>' and detect
\* returns at once: no CMP probe, no candidate search, no lock, no
\* screenshot, no cookie recording, no cookie deletion.
C9_UnsupportedLanguageSkipped ==
    /\ (language \notin {"null", "en", "de"}) =>
          /\ skipped
          /\ skipped_reason = <<"unimplemented language", language>>
          /\ detect_done \in {"returned", "returned_failed"}
          /\ spc \notin DetectPcs
          /\ done_steps = {}
          /\ screenshots = <<>>
          /\ DOMAIN cookies = {}
          /\ lock_l = Free /\ lock_n = Free /\ lock_m = Free
    /\ skipped => language \notin {"null", "en", "de"}

\* a page in an unsupported language whose session has ended
C9_Witness == skipped /\ language = "ja" /\ spc = "done"

\* C10 as stated: whenever detect_cookie_notices returns without raising and
\* the page is not marked failed, the cookie jar is empty.
C10_JarEmptyAfterDetect == detect_done = "returned" => ret_jar = {}

\* C10: whenever detect_cookie_notices returns without raising on a page
\* that was not skipped for its language, the cookie jar is empty at that
\* moment; a skipped page returns before the purge and keeps its cookies.
C10_JarEmptyUnlessSkipped ==
    (detect_done \in {"returned", "returned_failed"} /\ ~skipped) => ret_jar = {}

\* detection ran to its end on a page that had set cookies, and purged them
C10_Witness ==
    /\ detect_done = "returned"
    /\ ~skipped
    /\ "delete" \in done_steps
    /\ cookies["all"] # {}

\* the screenshot section has run to its end
SectionDone == shot_phase = 4

\* the names the section has to store for the visibility results it got
ExpectedShots ==
    {<<"original", 0>>} \cup
    UNION {{<<SetName(k), i>> : i \in 0..(vis_counts[k] - 1)} : k \in 1..3}

PurgePcs == {"dc_del_test", "dc_del_fetch", "dc_del_one"}

\* C15: the delete-all-cookies loop stops after a bounded number of passes
\* even when the jar keeps being non-empty: once entered, the loop is
\* eventually left.
C15_PurgeTerminates == (spc = "dc_del_test") ~> (spc \notin PurgePcs)

\* ============================================= properties of SpecPromote
\* C24: block-ancestor promotion is idempotent: find_parent_block_element
\* applied to its own result returns that result, and applied to an element
\* whose computed display is not inline it returns that element.
C24_PromotionIdempotent ==
    probed[1] = "find_parent_block_element" =>
        /\ FindParentBlockElement(answer) = answer
        /\ dom[probed[2]].display # "inline" => answer = probed[2]

\* C24 witness: an element with an inline name and a block display was
\* promoted to itself, below it an inline element was promoted to it
C24_Witness ==
    /\ probed = <<"find_parent_block_element", 1>>
    /\ Len(dom) = 3
    /\ dom[1].name = "span" /\ dom[1].display = "inline"
    /\ dom[2].name = "span" /\ dom[2].display = "block"
    /\ answer = 2

\* =============================================== properties of SpecFixed
\* the ancestors-or-self of n below html whose position is fixed
FixedBelowHtml(n) == {i \in n..(Len(dom) - 1) : dom[i].position = "fixed"}

\* C22: for each seed, find_fixed_parent returns the nearest
\* ancestor-or-self below html whose position is fixed, if there is one;
\* otherwise no candidate when the html element reached is the root
\* frame's, and the frame owner element when it is a child frame's; an html
\* element is never the candidate.
C22_FixedParent ==
    probed[1] = "find_fixed_parent" =>
        LET n == probed[2]
            html == dom[Len(dom)]
        IN  /\ FixedBelowHtml(n) # {} =>
                  /\ answer.has_fixed_parent
                  /\ answer.fixed_parent \in FixedBelowHtml(n)
                  /\ \A i \in FixedBelowHtml(n) : answer.fixed_parent <= i
            /\ (FixedBelowHtml(n) = {} /\ html.frameId = "root") =>
                  ~answer.has_fixed_parent
            /\ (FixedBelowHtml(n) = {} /\ html.frameId # "root") =>
                  /\ answer.has_fixed_parent
                  /\ answer.fixed_parent = Document + 1
            /\ answer.has_fixed_parent => answer.fixed_parent # Len(dom)

\* C22 witness: a seed without a fixed ancestor, in a child frame whose html
\* element is itself fixed, yields the frame owner
C22_Witness ==
    /\ probed = <<"find_fixed_parent", 1>>
    /\ Len(dom) = 3
    /\ FixedBelowHtml(1) = {}
    /\ dom[3].frameId = "child" /\ dom[3].position = "fixed"
    /\ answer = [has_fixed_parent |-> TRUE, fixed_parent |-> Document + 1]

WholePx(v) == v \div 2

\* the width of e under its box-sizing, in whole pixels: the computed width
\* and the horizontal margins, with the horizontal padding and border for
\* content-box
OuterWidthPx(e) ==
    WholePx(dom[e].width) + WholePx(dom[e].marginLeft) + WholePx(dom[e].marginRight)
    + IF dom[e].boxSizing = "content-box"
         THEN WholePx(dom[e].paddingLeft) + WholePx(dom[e].paddingRight)
              + WholePx(dom[e].borderLeftWidth) + WholePx(dom[e].borderRightWidth)
         ELSE 0

C27_WalkAcceptsOrRejects ==
    probed[1] = "find_full_width_parent" =>
        /\ WalkUp(probed[2]) # Document
        /\ answer.raised = "none"

\* ============================================= properties of SpecVisible
\* d is a descendant of n
RECURSIVE Inside(_, _)
Inside(d, n) ==
    /\ dom[d].parent # Document
    /\ (dom[d].parent = n \/ Inside(dom[d].parent, n))

\* n is an element that display, opacity and visibility do not hide
NotHidden(n) ==
    /\ dom[n].element
    /\ dom[n].display # "none"
    /\ dom[n].opacity >= 10
    /\ dom[n].visibility = "visible"

\* n has a box of 0x0
ZeroBox(n) == dom[n].offsetWidth = 0 /\ dom[n].offsetHeight = 0

\* the predicate is positive for node d
Positive(d) == IsVisibleJs(d) # NoNode

\* the call returned a descendant of n for which the predicate is positive
ReturnedVisibleInside(n) ==
    /\ answer.is_visible
    /\ Inside(answer.visible_node, n)
    /\ IsVisibleJs(answer.visible_node) = answer.visible_node

\* C25: for a node with display:none the predicate returns invisible
\* whatever its children are; for a 0x0 node that display, opacity and
\* visibility do not hide and that has a descendant for which the predicate
\* is positive, it returns a visible descendant, not the node.
C25_VisibleDescendantReturned ==
    probed[1] = "is_node_visible" =>
        LET n == probed[2]
        IN  /\ (dom[n].element /\ dom[n].display = "none") => ~answer.is_visible
            /\ (NotHidden(n) /\ ZeroBox(n)
                   /\ \E d \in DOMAIN dom : Inside(d, n) /\ Positive(d))
                  => ReturnedVisibleInside(n)

\* C25, amended: for a node with display:none the predicate returns
\* invisible whatever its children are; for a 0x0 node that display, opacity
\* and visibility do not hide and that has a child for which the predicate
\* is positive, it returns what the predicate returns for the first such
\* child: a visible descendant, not the node.
C25_VisibleChildReturned ==
    probed[1] = "is_node_visible" =>
        LET n == probed[2]
            kids == {c \in DOMAIN dom : dom[c].parent = n /\ Positive(c)}
        IN  /\ (dom[n].element /\ dom[n].display = "none") => ~answer.is_visible
            /\ (NotHidden(n) /\ ZeroBox(n) /\ kids # {}) =>
                  /\ ReturnedVisibleInside(n)
                  /\ \E c \in kids :
                        /\ \A o \in kids : c <= o
                        /\ answer.visible_node = IsVisibleJs(c)

\* C25 witness: a 0x0 element whose only child is a 0x0 element around an
\* element hit at its centre: the call on the first returns the last
C25_Witness ==
    /\ probed = <<"is_node_visible", 1>>
    /\ Len(dom) = 3
    /\ dom[1].kind = "zero"
    /\ dom[2].kind = "zero" /\ dom[2].parent = 1
    /\ dom[3].kind = "shown" /\ dom[3].parent = 2
    /\ answer = [is_visible |-> TRUE, visible_node |-> 3]

\* =============================================== properties of SpecSeeds
\* C21: every seed handed to the fixed-parent and full-width strategies is
\* a block-promoted node that itself passed the visibility predicate.
C21_SeedsPromotedAndVisible ==
    probed[1] = "text_seeds" =>
        \A seed \in answer :
            /\ FindParentBlockElement(seed) = seed
            /\ IsNodeVisible(seed).is_visible

\* ============================================== properties of SpecOracle
\* the entries of rule r's domain option; none when it has no such option
DomainEntriesOf(r) ==
    IF \E i \in DOMAIN r.options : r.options[i][1] = "domain"
       THEN LET i == CHOOSE k \in DOMAIN r.options : r.options[k][1] = "domain"
            IN  {r.options[i][2][k] : k \in DOMAIN r.options[i][2]}
       ELSE {}

\* rule r has a positive-scope domain, and none of them is a substring of h
ScopedElsewhere(r, h) ==
    /\ \E e \in DomainEntriesOf(r) : e[2]
    /\ \A e \in DomainEntriesOf(r) : e[2] => ~IsSubstring(e[1], h)

\* C12: get_applicable_rules(h) returns exactly the retained rules that have
\* no domain option, or only exclusion entries, or a positive-scope domain
\* that is a substring of h, in the order of the list; a rule whose positive
\* domains are all not substrings of h is never returned.
C12_RuleApplicability ==
    asked # "none" =>
        LET Applies(r) ==
                \/ \A i \in DOMAIN r.options : r.options[i][1] # "domain"
                \/ \A e \in DomainEntriesOf(r) : ~e[2]
                \/ \E e \in DomainEntriesOf(r) : e[2] /\ IsSubstring(e[1], asked)
        IN  /\ applicable = SelectSeq(rules, Applies)
            /\ \A i \in DOMAIN applicable : ~ScopedElsewhere(applicable[i], asked)

\* a rule that excludes a domain of the hostname and is scoped to another
\* domain was asked for, and was not returned
C12_Witness ==
    /\ asked # "none"
    /\ Len(rules) = 1
    /\ applicable = <<>>
    /\ \E e \in DomainEntriesOf(rules[1]) : ~e[2] /\ IsSubstring(e[1], asked)
    /\ ScopedElsewhere(rules[1], asked)

====
